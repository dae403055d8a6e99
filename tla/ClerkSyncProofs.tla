--------------------------- MODULE ClerkSyncProofs ---------------------------
(***************************************************************************)
(* Proofs about ClerkSync: its type, and that late or repeated events move *)
(* a user who is in an organisation only to where a membership says, for   *)
(* every number of users, organisations, roles and versions, and every     *)
(* order in which events arrive.                                           *)
(***************************************************************************)
EXTENDS ClerkSync, TLAPS

(* An event that is under way tells of something that happened in Clerk.   *)
EventHappened(e) ==
    /\ e.type = "organization" => e.version <= orgs[e.org]
    /\ e.type = "user" => e.version <= users[e.user]
    /\ e.type = "membership" => e.of \in members

PendingHappened == \A e \in pending : EventHappened(e)

IInv == TypeOK /\ PendingHappened

-----------------------------------------------------------------------------
(* The kinds of events differ in their type, so that an event of a kind    *)
(* has the fields of that kind.                                            *)
LEMMA EventFields ==
    ASSUME NEW e \in Event
    PROVE  /\ e.type = "organization" =>
                  e.org \in Orgs /\ e.version \in 1 .. MaxVersions
           /\ e.type = "user" =>
                  /\ e.user \in Users /\ e.version \in 1 .. MaxVersions
                  /\ e.hint \in Orgs \cup {Nowhere}
           /\ e.type = "membership" => e.of \in Membership
<1>1. CASE e \in [type : {"organization"}, org : Orgs,
                  version : 1 .. MaxVersions]
  BY <1>1
<1>2. CASE e \in [type : {"user"}, user : Users, version : 1 .. MaxVersions,
                  hint : Orgs \cup {Nowhere}]
  BY <1>2
<1>3. CASE e \in [type : {"membership"}, of : Membership]
  BY <1>3
<1> QED
  BY <1>1, <1>2, <1>3 DEF Event

(* A user event sets an email and, for a new user, a home that has a row.  *)
LEMMA UserEffect ==
    ASSUME TypeOK, NEW e \in Event, e.type = "user", SyncUser(e)
    PROVE  LET u == e.user
           IN  /\ person' = [person EXCEPT ![u] = person'[u]]
               /\ person'[u] \in Person
               /\ person'[u].email = e.version
               /\ person'[u].home \in Orgs =>
                      spaces[person'[u].home] > 0
               /\ person[u].home # Nowhere =>
                      /\ person'[u].home = person[u].home
                      /\ person'[u].role = person[u].role
<1> DEFINE u == e.user
           new == [home |-> FirstHome(e.hint), email |-> e.version,
                   role |-> Admin]
<1>1. /\ u \in Users /\ e.version \in 1 .. MaxVersions
      /\ e.hint \in Orgs \cup {Nowhere}
  BY EventFields
<1>2. person[u] \in Person /\ person \in [Users -> Person]
  BY <1>1 DEF TypeOK
<1>3. CASE person[u].home = Nowhere
  <2>1. person' = [person EXCEPT ![u] = new]
    BY <1>3 DEF SyncUser
  <2>2. /\ FirstHome(e.hint) \in Orgs \cup {Personal}
        /\ FirstHome(e.hint) \in Orgs => spaces[FirstHome(e.hint)] > 0
    BY <1>1, ClerkAssumption DEF FirstHome
  <2>3. new \in Person
    BY <1>1, <2>2 DEF Person
  <2> QED
    BY <1>1, <1>2, <1>3, <2>1, <2>2, <2>3
<1>4. CASE person[u].home # Nowhere
  <2>1. person' = [person EXCEPT ![u] = [person[u] EXCEPT !.email = e.version]]
    BY <1>1, <1>2, <1>4 DEF SyncUser
  <2>2. [person[u] EXCEPT !.email = e.version] \in Person
    BY <1>1, <1>2 DEF Person
  <2>3. person[u].home \in Orgs => spaces[person[u].home] > 0
    BY <1>1 DEF TypeOK
  <2> QED
    BY <1>1, <1>2, <2>1, <2>2, <2>3 DEF Person
<1> QED
  BY <1>3, <1>4

(* A membership event changes one person, to where and what it says.       *)
LEMMA MembershipEffect ==
    ASSUME TypeOK, NEW m \in Membership, NEW acked \in BOOLEAN,
           SyncMembership(m, acked), CanLink(m)
    PROVE  /\ person' = [person EXCEPT ![m.user] = person'[m.user]]
           /\ person'[m.user] \in Person
           /\ person'[m.user].home = m.org
           /\ person'[m.user].role = m.role
           /\ person'[m.user].email = person[m.user].email
           /\ spaces[m.org] > 0
<1>1. m.user \in Users /\ m.org \in Orgs /\ m.role \in Roles
  BY DEF Membership
<1>2. person[m.user] \in Person /\ person \in [Users -> Person]
  BY <1>1 DEF TypeOK
<1>3. person' = [person EXCEPT ![m.user].home = m.org, ![m.user].role = m.role]
  BY DEF SyncMembership
<1>4. person'[m.user] = [person[m.user] EXCEPT !.home = m.org, !.role = m.role]
  BY <1>1, <1>2, <1>3
<1>5. person' = [person EXCEPT ![m.user] = person'[m.user]]
  BY <1>1, <1>2, <1>3, <1>4
<1> QED
  BY <1>1, <1>2, <1>4, <1>5 DEF Person, CanLink

-----------------------------------------------------------------------------
(* The invariant                                                           *)

LEMMA InitInvariant == Init => IInv
<1> SUFFICES ASSUME Init PROVE IInv
  OBVIOUS
<1>1. TypeOK
  BY ClerkAssumption DEF Init, TypeOK, Person
<1>2. PendingHappened
  BY DEF Init, PendingHappened
<1> QED
  BY <1>1, <1>2 DEF IInv

(* What Clerk does adds versions, memberships and events that tell of them.*)
LEMMA ClerkKeepsInvariant ==
    ASSUME IInv,
           \/ \E o \in Orgs : ChangeOrg(o)
           \/ \E u \in Users : ChangeUser(u)
           \/ \E u \in Users, o \in Orgs : Join(u, o)
    PROVE  IInv'
<1> USE DEF IInv, TypeOK, PendingHappened, EventHappened
<1>1. ASSUME NEW o \in Orgs, ChangeOrg(o) PROVE IInv'
  <2> DEFINE new == [type |-> "organization", org |-> o, version |-> orgs[o] + 1]
  <2>1. orgs[o] + 1 \in 1 .. MaxVersions
    BY <1>1, ClerkAssumption DEF ChangeOrg
  <2>2. new \in Event
    BY <2>1 DEF Event
  <2>3. /\ orgs' = [orgs EXCEPT ![o] = orgs[o] + 1]
        /\ pending' = pending \cup {new}
        /\ UNCHANGED <<users, members, spaces, person, early>>
    BY <1>1 DEF ChangeOrg
  <2>4. \A p \in Orgs : orgs[p] <= orgs'[p]
    BY <2>3, ClerkAssumption
  <2>5. \A e \in pending : e.type = "organization" =>
                                e.org \in Orgs /\ e.version \in Nat
    BY EventFields, ClerkAssumption
  <2>6. TypeOK'
    BY <2>1, <2>2, <2>3, <2>4, ClerkAssumption
  <2>7. PendingHappened'
    BY <2>3, <2>4, <2>5, ClerkAssumption
  <2> QED
    BY <2>6, <2>7
<1>2. ASSUME NEW u \in Users, ChangeUser(u) PROVE IInv'
  <2>1. PICK h \in Orgs \cup {Nowhere} :
            pending' = pending \cup {[type |-> "user", user |-> u,
                                      version |-> users[u] + 1, hint |-> h]}
    BY <1>2 DEF ChangeUser
  <2> DEFINE new == [type |-> "user", user |-> u, version |-> users[u] + 1,
                     hint |-> h]
  <2>2. users[u] + 1 \in 1 .. MaxVersions
    BY <1>2, ClerkAssumption DEF ChangeUser
  <2>3. new \in Event
    BY <2>2 DEF Event
  <2>4. /\ users' = [users EXCEPT ![u] = users[u] + 1]
        /\ UNCHANGED <<orgs, members, spaces, person, early>>
    BY <1>2 DEF ChangeUser
  <2>5. \A v \in Users : users[v] <= users'[v]
    BY <2>4, ClerkAssumption
  <2>6. \A e \in pending : e.type = "user" =>
                                e.user \in Users /\ e.version \in Nat
    BY EventFields, ClerkAssumption
  <2>7. \A v \in Users : person[v].email \in Nat
    BY ClerkAssumption DEF Person
  <2>8. TypeOK'
    BY <2>1, <2>2, <2>3, <2>4, <2>5, <2>7, ClerkAssumption
  <2>9. PendingHappened'
    BY <2>1, <2>4, <2>5, <2>6, ClerkAssumption
  <2> QED
    BY <2>8, <2>9
<1>3. ASSUME NEW u \in Users, NEW o \in Orgs, Join(u, o) PROVE IInv'
  <2>1. PICK r \in Roles :
            LET m == [user |-> u, org |-> o, role |-> r]
            IN  /\ members' = members \cup {m}
                /\ pending' = pending \cup {[type |-> "membership", of |-> m]}
    BY <1>3 DEF Join
  <2> DEFINE m == [user |-> u, org |-> o, role |-> r]
  <2>2. m \in Membership /\ [type |-> "membership", of |-> m] \in Event
    BY DEF Membership, Event
  <2>3. UNCHANGED <<orgs, users, spaces, person, early>>
    BY <1>3 DEF Join
  <2>4. TypeOK'
    BY <2>1, <2>2, <2>3
  <2>5. PendingHappened'
    BY <2>1, <2>3
  <2> QED
    BY <2>4, <2>5
<1> QED
  BY <1>1, <1>2, <1>3

(* Handling an event copies only what has happened; one that is not        *)
(* acknowledged stays under way as it is.                                  *)
LEMMA DeliveryKeepsInvariant ==
    ASSUME IInv, NEW e \in Event, NEW acked \in BOOLEAN, Deliver(e, acked)
    PROVE  IInv'
<1>1. /\ e \in pending /\ EventHappened(e)
      /\ pending' \subseteq pending
      /\ UNCHANGED clerkVars
  BY DEF Deliver, IInv, PendingHappened
<1>2. PendingHappened'
  BY <1>1 DEF IInv, PendingHappened, EventHappened, clerkVars
<1>3. /\ orgs' \in [Orgs -> 0 .. MaxVersions]
      /\ users' \in [Users -> 0 .. MaxVersions]
      /\ members' \subseteq Membership
      /\ pending' \subseteq Event
  BY <1>1 DEF IInv, TypeOK, clerkVars
<1>4. CASE e.type = "organization" /\ SyncOrg(e)
  <2>1. e.org \in Orgs /\ e.version \in 1 .. MaxVersions
    BY <1>4, EventFields
  <2>2. /\ spaces' = [spaces EXCEPT ![e.org] = e.version]
        /\ UNCHANGED <<person, early>>
    BY <1>4 DEF SyncOrg
  <2>3. e.version <= orgs[e.org]
    BY <1>1, <1>4 DEF EventHappened
  <2>4. TypeOK'
    BY <1>1, <1>3, <2>1, <2>2, <2>3, ClerkAssumption
    DEF IInv, TypeOK, clerkVars
  <2> QED
    BY <1>2, <2>4 DEF IInv
<1>5. CASE e.type = "user" /\ SyncUser(e)
  <2> DEFINE u == e.user
  <2>1. u \in Users /\ e.version <= users[u]
    BY <1>1, <1>5, EventFields DEF EventHappened
  <2>2. /\ person' = [person EXCEPT ![u] = person'[u]]
        /\ person'[u] \in Person
        /\ person'[u].email = e.version
        /\ person'[u].home \in Orgs => spaces[person'[u].home] > 0
    BY <1>5, UserEffect DEF IInv
  <2>3. UNCHANGED <<spaces, early>>
    BY <1>5 DEF SyncUser
  <2> HIDE DEF u
  <2>4. TypeOK'
    BY <1>1, <1>3, <2>1, <2>2, <2>3 DEF IInv, TypeOK, clerkVars
  <2> QED
    BY <1>2, <2>4 DEF IInv
<1>6. CASE e.type = "membership" /\ SyncMembership(e.of, acked)
  <2> DEFINE m == e.of
  <2>1. m \in Membership /\ m \in members
    BY <1>1, <1>6, EventFields DEF EventHappened
  <2> HIDE DEF m
  <2>2. SyncMembership(m, acked)
    BY <1>6 DEF m
  <2>3. UNCHANGED spaces /\ early' \subseteq early \cup {m}
    BY <2>2 DEF SyncMembership
  <2>4. m.user \in Users /\ m.org \in Orgs
    BY <2>1 DEF Membership
  <2>5. CASE CanLink(m)
    <3>1. /\ person' = [person EXCEPT ![m.user] = person'[m.user]]
          /\ person'[m.user] \in Person
          /\ person'[m.user].home = m.org
          /\ person'[m.user].email = person[m.user].email
          /\ spaces[m.org] > 0
      BY <2>1, <2>2, <2>5, MembershipEffect DEF IInv
    <3>2. TypeOK'
      BY <1>1, <1>3, <2>1, <2>3, <2>4, <3>1 DEF IInv, TypeOK, clerkVars
    <3> QED
      BY <1>2, <3>2 DEF IInv
  <2>6. CASE ~CanLink(m)
    <3>1. UNCHANGED person
      BY <2>2, <2>6 DEF SyncMembership
    <3>2. TypeOK'
      BY <1>1, <1>3, <2>1, <2>3, <3>1 DEF IInv, TypeOK, clerkVars
    <3> QED
      BY <1>2, <3>2 DEF IInv
  <2> QED
    BY <2>5, <2>6
<1> QED
  BY <1>4, <1>5, <1>6 DEF Deliver

LEMMA NextInvariant == IInv /\ [Next]_vars => IInv'
<1> SUFFICES ASSUME IInv, [Next]_vars PROVE IInv'
  OBVIOUS
<1>1. CASE UNCHANGED vars
  BY <1>1 DEF vars, clerkVars, IInv, TypeOK, PendingHappened, EventHappened
<1>2. CASE Next
  BY <1>2, ClerkKeepsInvariant, DeliveryKeepsInvariant DEF Next
<1> QED
  BY <1>1, <1>2

(* Nothing is recorded, and nothing is under way, that did not happen in   *)
(* Clerk, however often and in whichever order events arrive.              *)
THEOREM Invariant == Spec => []IInv
BY InitInvariant, NextInvariant, PTL DEF Spec

(* The tables stay in their types, a user's organisation has a workspace   *)
(* row, and no version is newer than Clerk's (handle_clerk_webhook), for   *)
(* any number of users, organisations and versions.                        *)
THEOREM TypeCorrect == Spec => []TypeOK
<1>1. IInv => TypeOK
  BY DEF IInv
<1> QED
  BY <1>1, Invariant, PTL

(* A user in an organisation's workspace is moved, and given another role, *)
(* only as a membership says that Clerk has created: no user event, late   *)
(* or repeated, undoes it (the branches user.* and                         *)
(* organizationMembership.created of handle_clerk_webhook).                *)
THEOREM MembershipsStick == Spec => MembershipSticks
<1> DEFINE Sticks(u) ==
        LET old == person[u]
            new == person'[u]
        IN  old.home \in Orgs /\ (new.home # old.home \/ new.role # old.role)
              => \E m \in members : /\ m.user = u
                                    /\ m.org = new.home
                                    /\ m.role = new.role
<1>1. ASSUME IInv, Next, NEW u \in Users
      PROVE  Sticks(u)
  <2>1. CASE UNCHANGED person
    BY <2>1
  <2>2. ASSUME NEW e \in Event, NEW acked \in BOOLEAN, Deliver(e, acked)
        PROVE  Sticks(u)
    <3>1. TypeOK /\ EventHappened(e)
      BY <1>1, <2>2 DEF IInv, PendingHappened, Deliver
    <3>2. CASE e.type = "organization" /\ SyncOrg(e)
      BY <3>2 DEF SyncOrg
    <3>3. CASE e.type = "user" /\ SyncUser(e)
      <4>1. CASE u = e.user
        <5>1. person[u].home # Nowhere => /\ person'[u].home = person[u].home
                                          /\ person'[u].role = person[u].role
          BY <3>1, <3>3, <4>1, UserEffect
        <5> QED
          BY <5>1, ClerkAssumption
      <4>2. CASE u # e.user
        <5>1. person' = [person EXCEPT ![e.user] = person'[e.user]]
          BY <3>1, <3>3, UserEffect
        <5>2. person'[u] = person[u]
          BY <3>1, <4>2, <5>1 DEF TypeOK
        <5> QED
          BY <5>2
      <4> QED
        BY <4>1, <4>2
    <3>4. CASE e.type = "membership" /\ SyncMembership(e.of, acked)
      <4>1. e.of \in members /\ e.of \in Membership
        BY <3>1, <3>4, EventFields DEF EventHappened
      <4>2. CASE CanLink(e.of)
        <5>1. /\ person' = [person EXCEPT ![e.of.user] = person'[e.of.user]]
              /\ person'[e.of.user].home = e.of.org
              /\ person'[e.of.user].role = e.of.role
          BY <3>1, <3>4, <4>1, <4>2, MembershipEffect
        <5>2. CASE u = e.of.user
          BY <4>1, <5>1, <5>2
        <5>3. CASE u # e.of.user
          <6>1. person'[u] = person[u]
            BY <3>1, <5>1, <5>3 DEF TypeOK
          <6> QED
            BY <6>1
        <5> QED
          BY <5>2, <5>3
      <4>3. CASE ~CanLink(e.of)
        BY <3>4, <4>3 DEF SyncMembership
      <4> QED
        BY <4>2, <4>3
    <3> QED
      BY <2>2, <3>2, <3>3, <3>4 DEF Deliver
  <2> QED
    BY <1>1, <2>1, <2>2 DEF Next, ChangeOrg, ChangeUser, Join
<1>2. IInv /\ [Next]_vars => [\A u \in Users : Sticks(u)]_vars
  BY <1>1
<1> QED
  BY <1>2, Invariant, PTL DEF Spec, MembershipSticks
=============================================================================
