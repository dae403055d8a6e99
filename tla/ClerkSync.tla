----------------------------- MODULE ClerkSync ------------------------------
(***************************************************************************)
(* Users, organisations and memberships as the handler of Clerk's webhooks *)
(* copies them into the tables users and workspaces                        *)
(* (api/app/api/webhooks.py, api/app/models/workspace.py).                 *)
(*                                                                         *)
(* Clerk and its delivery service Svix are the environment: events arrive  *)
(* in any order, and again until a reply says success.  The handler awaits *)
(* only the request's body and then uses the database synchronously in the *)
(* one process of the API, so that it is one step; a step that the         *)
(* database refuses changes nothing and its event comes again.             *)
(*                                                                         *)
(* A name or an email is the version of the entity it was sent with.  The  *)
(* verification of events and the tokens of requests are left out.         *)
(***************************************************************************)
EXTENDS Naturals

CONSTANTS
    Users,        \* Clerk's users
    Orgs,         \* Clerk's organisations
    Roles,        \* roles in an organisation
    MaxVersions   \* bound: changes of one entity

(* Homes that are not organisations: no row, and a workspace of one's own. *)
Nowhere == "nowhere"
Personal == "personal"

(* The role user.created gives.                                            *)
Admin == "admin"

ASSUME ClerkAssumption ==
    /\ MaxVersions \in Nat
    /\ {Nowhere, Personal} \cap Orgs = {}

VARIABLES
    orgs,     \* Clerk: version of each organisation, 0 before it exists
    users,    \* Clerk: version of each user, 0 before it exists
    members,  \* Clerk: the memberships created
    pending,  \* Svix: events without a successful reply
    spaces,   \* version in each organisation's workspace row, 0 without row
    person,   \* each user's row
    early     \* history: memberships acknowledged without effect

clerkVars == <<orgs, users, members>>
vars == <<clerkVars, pending, spaces, person, early>>

Membership == [user : Users, org : Orgs, role : Roles]

Event ==
    [type : {"organization"}, org : Orgs, version : 1 .. MaxVersions]
      \cup [type : {"user"}, user : Users, version : 1 .. MaxVersions,
            hint : Orgs \cup {Nowhere}]
      \cup [type : {"membership"}, of : Membership]

Person == [home : Orgs \cup {Nowhere, Personal},
           email : 0 .. MaxVersions, role : Roles \cup {Admin}]

Init ==
    /\ orgs = [o \in Orgs |-> 0]
    /\ users = [u \in Users |-> 0]
    /\ members = {}
    /\ pending = {}
    /\ spaces = [o \in Orgs |-> 0]
    /\ person = [u \in Users |-> [home |-> Nowhere, email |-> 0,
                                  role |-> Admin]]
    /\ early = {}

-----------------------------------------------------------------------------
(* Clerk                                                                   *)

(* organization.created and organization.updated                           *)
ChangeOrg(o) ==
    /\ orgs[o] < MaxVersions
    /\ orgs' = [orgs EXCEPT ![o] = @ + 1]
    /\ pending' = pending \cup {[type |-> "organization", org |-> o,
                                 version |-> orgs[o] + 1]}
    /\ UNCHANGED <<users, members, spaces, person, early>>

(* user.created and user.updated; public_metadata may name an organisation.*)
ChangeUser(u) ==
    /\ users[u] < MaxVersions
    /\ users' = [users EXCEPT ![u] = @ + 1]
    /\ \E h \in {o \in Orgs : orgs[o] > 0} \cup {Nowhere} :
          pending' = pending \cup {[type |-> "user", user |-> u,
                                    version |-> users[u] + 1, hint |-> h]}
    /\ UNCHANGED <<orgs, members, spaces, person, early>>

(* organizationMembership.created                                          *)
Join(u, o) ==
    /\ users[u] > 0 /\ orgs[o] > 0
    /\ \A m \in members : m.user # u \/ m.org # o
    /\ \E r \in Roles :
          LET m == [user |-> u, org |-> o, role |-> r]
          IN  /\ members' = members \cup {m}
              /\ pending' = pending \cup {[type |-> "membership", of |-> m]}
    /\ UNCHANGED <<orgs, users, spaces, person, early>>

-----------------------------------------------------------------------------
(* handle_clerk_webhook                                                    *)

(* The workspace is created or renamed.                                    *)
SyncOrg(e) ==
    /\ spaces' = [spaces EXCEPT ![e.org] = e.version]
    /\ UNCHANGED <<person, early>>

(* Mutant: the organisation named in the metadata is not looked up.        *)
FirstHomeUnchecked(h) == IF h # Nowhere THEN h ELSE Personal

(* The workspace of a new user: the organisation's if it has a row, and    *)
(* else a new one of the user's own.                                       *)
FirstHome(h) == IF h # Nowhere /\ spaces[h] > 0 THEN h ELSE Personal

(* Mutant: an update assigns workspace and role as the creation does.      *)
SyncUserAnew(e) ==
    /\ person' = [person EXCEPT ![e.user] =
                     [home |-> FirstHome(e.hint), email |-> e.version,
                      role |-> Admin]]
    /\ UNCHANGED <<spaces, early>>

(* The user is created, or only the email of one who has a row is set.     *)
SyncUser(e) ==
    /\ \/ /\ person[e.user].home = Nowhere
          /\ person' = [person EXCEPT ![e.user] =
                           [home |-> FirstHome(e.hint), email |-> e.version,
                            role |-> Admin]]
       \/ /\ person[e.user].home # Nowhere
          /\ person' = [person EXCEPT ![e.user].email = e.version]
    /\ UNCHANGED <<spaces, early>>

(* Mutant: a user who is in an organisation already is not moved.          *)
CanLinkOnce(m) ==
    /\ spaces[m.org] > 0
    /\ person[m.user].home = Personal

(* Workspace and user are found.                                           *)
CanLink(m) ==
    /\ spaces[m.org] > 0
    /\ person[m.user].home # Nowhere

(* The user moves to the organisation's workspace with the role of the     *)
(* membership, or nothing happens; the reply is success either way.        *)
SyncMembership(m, acked) ==
    /\ UNCHANGED spaces
    /\ \/ /\ CanLink(m)
          /\ person' = [person EXCEPT ![m.user].home = m.org,
                                      ![m.user].role = m.role]
          /\ UNCHANGED early
       \/ /\ ~CanLink(m)
          /\ early' = IF acked /\ (spaces[m.org] = 0
                                   \/ person[m.user].home = Nowhere)
                      THEN early \cup {m} ELSE early
          /\ UNCHANGED person

(* An event is handled; its reply reaches Svix, or the event comes again.  *)
Deliver(e, acked) ==
    /\ e \in pending
    /\ \/ e.type = "organization" /\ SyncOrg(e)
       \/ e.type = "user" /\ SyncUser(e)
       \/ e.type = "membership" /\ SyncMembership(e.of, acked)
    /\ pending' = IF acked THEN pending \ {e} ELSE pending
    /\ UNCHANGED clerkVars

-----------------------------------------------------------------------------

Next ==
    \/ \E o \in Orgs : ChangeOrg(o)
    \/ \E u \in Users : ChangeUser(u)
    \/ \E u \in Users, o \in Orgs : Join(u, o)
    \/ \E e \in Event, acked \in BOOLEAN : Deliver(e, acked)

(* Svix repeats an event until a reply says success.                       *)
Spec ==
    /\ Init /\ [][Next]_vars
    /\ \A e \in Event : WF_vars(Deliver(e, TRUE))

-----------------------------------------------------------------------------
(* Properties                                                              *)

(* The state stays in its type, a user's organisation has a workspace row  *)
(* (the foreign key), and nothing local is newer than Clerk's.             *)
TypeOK ==
    /\ orgs \in [Orgs -> 0 .. MaxVersions]
    /\ users \in [Users -> 0 .. MaxVersions]
    /\ members \subseteq Membership
    /\ pending \subseteq Event
    /\ spaces \in [Orgs -> 0 .. MaxVersions]
    /\ person \in [Users -> Person]
    /\ early \subseteq members
    /\ \A u \in Users : person[u].home \in Orgs => spaces[person[u].home] > 0
    /\ \A o \in Orgs : spaces[o] <= orgs[o]
    /\ \A u \in Users : person[u].email <= users[u]

(* Once a user is in an organisation's workspace, events that come late or *)
(* again change workspace and role only to those of a membership Clerk has *)
(* created: no user event takes the user out, or gives a role back.        *)
MembershipSticks ==
    [][\A u \in Users :
          LET old == person[u]
              new == person'[u]
          IN  old.home \in Orgs /\ (new.home # old.home \/ new.role # old.role)
                => \E m \in members : /\ m.user = u
                                      /\ m.org = new.home
                                      /\ m.role = new.role]_vars

(* A membership takes effect, however its event is delayed and repeated,   *)
(* unless it was acknowledged before its user and its workspace had rows,  *)
(* or the user has another membership as well.                             *)
MembershipsArrive ==
    \A u \in Users, o \in Orgs :
        (\E m \in members : m.user = u /\ m.org = o)
            ~> \/ person[u].home = o
               \/ \E m \in early : m.user = u /\ m.org = o
               \/ \E m \in members : m.user = u /\ m.org # o

=============================================================================
