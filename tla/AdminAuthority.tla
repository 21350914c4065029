--------------------------- MODULE AdminAuthority ---------------------------
(***************************************************************************)
(* What the device tables promise to the people who own the devices,       *)
(* without clocks, deadlines or credentials: who belongs, who manages, and *)
(* which invitations are open.                                             *)
(*                                                                         *)
(*   - only an administrator invites, and none is demoted or removed who   *)
(*     has no other beside it (who asks for that is not seen here: it is   *)
(*     what ManagedByAdminsOnly of Devices says);                          *)
(*   - an invitation admits one device, and dies with the authority of the *)
(*     administrator who issued it;                                        *)
(*   - a removed device never returns;                                     *)
(*   - the last administrator neither leaves nor is removed: only a reset  *)
(*     of the whole server, done locally, ends administration.             *)
(***************************************************************************)
CONSTANTS Device, Code, Legacy, Open, Local

VARIABLES
    members,     \* devices that belong, administrators included
    admins,      \* devices that manage
    removed,     \* devices that belonged once
    invitations  \* open invitations: <<code, the administrator or Local>>

authority == <<members, admins, removed, invitations>>

IssuedBy(sponsor) == {inv \in invitations : inv[2] = sponsor}

AuthorityInit ==
    /\ members = Legacy
    /\ admins = Legacy
    /\ removed = {}
    /\ invitations = {}

\* A device that was never known belongs from now on; the first one manages.
Admit(d, manages) ==
    /\ d \notin members \union removed
    /\ members' = members \union {d}
    /\ admins' = IF manages THEN admins \union {d} ELSE admins
    /\ UNCHANGED removed

\* Without an invitation, where the server is configured so.
JoinOpenly(d) ==
    /\ Open
    /\ Admit(d, members = {})
    /\ UNCHANGED invitations

\* With one that an administrator still stands for, or the local one of a
\* server nobody belongs to.
JoinByInvitation(d, inv, manages) ==
    /\ inv \in invitations
    /\ inv[2] \in admins \/ (inv[2] = Local /\ members = {} /\ manages)
    /\ Admit(d, manages)
    /\ invitations' = invitations \ {inv}

Invite(sponsor, code) ==
    /\ sponsor \in admins
    /\ invitations' = invitations \union {<<code, sponsor>>}
    /\ UNCHANGED <<members, admins, removed>>

InviteLocally(code) ==
    /\ members = {}
    /\ invitations' = (invitations \ IssuedBy(Local)) \union {<<code, Local>>}
    /\ UNCHANGED <<members, admins, removed>>

Promote(d) ==
    /\ d \in members
    /\ admins' = admins \union {d}
    /\ UNCHANGED <<members, removed, invitations>>

Demote(d) ==
    /\ admins \ {d} # {}
    /\ admins' = admins \ {d}
    /\ invitations' = invitations \ IssuedBy(d)
    /\ UNCHANGED <<members, removed>>

Remove(d) ==
    /\ d \in members
    /\ admins \ {d} # {}
    /\ members' = members \ {d}
    /\ admins' = admins \ {d}
    /\ removed' = removed \union {d}
    /\ invitations' = invitations \ IssuedBy(d)

Reset ==
    /\ members' = {}
    /\ admins' = {}
    /\ removed' = removed \union members
    /\ invitations' = {}

AuthorityNext ==
    \/ \E d \in Device : JoinOpenly(d) \/ Promote(d) \/ Demote(d) \/ Remove(d)
    \/ \E d \in Device, inv \in invitations, manages \in BOOLEAN :
          JoinByInvitation(d, inv, manages)
    \/ \E sponsor \in Device, code \in Code : Invite(sponsor, code)
    \/ \E code \in Code : InviteLocally(code)
    \/ Reset

AuthoritySpec == AuthorityInit /\ [][AuthorityNext]_authority
=============================================================================
