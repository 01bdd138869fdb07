---------------------------- MODULE StaffDirectory ----------------------------
(***************************************************************************)
(* Who may use the API (apps/api/src/staff/staff.service.ts,               *)
(* apps/api/src/auth/jwt-auth.guard.ts): the rows of users, the            *)
(* invitations among them, the first sign-in that claims one, and the      *)
(* admins who invite, re-role, deactivate and revoke.                      *)
(*                                                                         *)
(* A request is admitted once, by the guard, and acts with the role it was *)
(* admitted with.  Each statement commits on its own.  A guarded UPDATE is *)
(* two steps: it starts, which is when its EXISTS is answered, and it      *)
(* writes, which is when the row's own columns are checked again.          *)
(* The identity provider is the one with invitations (oidc).               *)
(***************************************************************************)
EXTENDS Integers, FiniteSets

CONSTANTS
  People,      \* subjects of the identity provider
  Emails,      \* addresses, lower case
  VerifiedOf,  \* addresses the provider vouches for, per person
  Rows,        \* ids of users rows
  Roles,
  Requests,    \* requests in progress at a time
  Root, Founder, \* the row and the person the system is seeded with
  NoOne, NoEmail

ASSUME StaffDirectoryAssumption ==
  /\ VerifiedOf \in [People -> SUBSET Emails]
  /\ "admin" \in Roles
  /\ Root \in Rows /\ Founder \in People
  /\ NoOne \notin People /\ NoEmail \notin Emails

VARIABLES
  user,       \* the rows: unused, gone, or a role with a person or an address
  req,        \* the requests in progress
  overlapped  \* two guarded UPDATEs have been under way at once

vars == <<user, req, overlapped>>

Unused == [is |-> "unused"]
Gone == [is |-> "gone"]
Staff == [is : {"staff"}, sub : People \cup {NoOne}, email : Emails \cup {NoEmail},
          role : Roles, active : BOOLEAN]
Changes == [field : {"role"}, to : Roles] \cup [field : {"active"}, to : BOOLEAN]
Idle == [at |-> "idle"]

Existing == {r \in Rows : user[r].is = "staff"}

\* An invited row has an address: nobody could claim it without one.
TypeOK ==
  /\ user \in [Rows -> {Unused, Gone} \cup Staff]
  /\ \A r \in Existing : user[r].sub # NoOne \/ user[r].email # NoEmail
  /\ req \in [Requests ->
       {Idle} \cup [at : {"claiming"}, sub : People, email : Emails]
              \cup [at : {"admitted"}, by : Rows, role : Roles]
              \cup [at : {"loaded"}, by : Rows, target : Rows, change : Changes]
              \cup [at : {"updating"}, by : Rows, target : Rows, change : Changes,
                    covered : BOOLEAN]]
  /\ overlapped \in BOOLEAN

Init ==
  /\ user = [r \in Rows |-> IF r = Root
       THEN [is |-> "staff", sub |-> Founder, email |-> NoEmail, role |-> "admin", active |-> TRUE]
       ELSE Unused]
  /\ req = [h \in Requests |-> Idle]
  /\ overlapped = FALSE

Goes(h, state) == req' = [req EXCEPT ![h] = state]
Done(h) == Goes(h, Idle)
Admitted(r, row) == [at |-> "admitted", by |-> r, role |-> row.role]

-----------------------------------------------------------------------------
(* The guard.                                                              *)

LinkedTo(p) == {r \in Existing : user[r].sub = p}

\* A verified token of person p, with address m or with none: the row of p, if
\* it is active, else the invitation of m is to be claimed.  Anyone else is
\* turned away and nothing changes.
Authenticate(h, p, m) ==
  /\ req[h] = Idle
  /\ \/ \E r \in LinkedTo(p) : user[r].active /\ Goes(h, Admitted(r, user[r]))
     \/ LinkedTo(p) = {} /\ m # NoEmail /\ Goes(h, [at |-> "claiming", sub |-> p, email |-> m])
  /\ UNCHANGED <<user, overlapped>>

\* The rows the claiming UPDATE matches.
ClaimableTaken(m) == {r \in Existing : user[r].email = m}
ClaimableAny(m) == {r \in Existing : user[r].sub = NoOne}
Claimable(m) == {r \in Existing : user[r].sub = NoOne /\ user[r].email = m}

\* The unique index on auth_sub.
SubjectFreeAlways(p) == TRUE
SubjectFree(p) == LinkedTo(p) = {}

\* The invitation is claimed and its row admitted if it is active, or there is
\* none (any more), or the index refuses a second row of the same person.
Claim(h) ==
  LET p == req[h].sub IN
  /\ req[h].at = "claiming"
  /\ IF Claimable(req[h].email) = {} \/ ~SubjectFree(p)
     THEN UNCHANGED user /\ Done(h)
     ELSE \E r \in Claimable(req[h].email) :
            /\ user' = [user EXCEPT ![r].sub = p]
            /\ IF user[r].active THEN Goes(h, Admitted(r, user[r])) ELSE Done(h)
  /\ UNCHANGED overlapped

-----------------------------------------------------------------------------
(* Administration: requests admitted as an admin.                          *)

IsAdmins(h) == req[h].at = "admitted" /\ req[h].role = "admin"

InvitationUnaddressed(m, role) ==
  [is |-> "staff", sub |-> NoOne, email |-> NoEmail, role |-> role, active |-> TRUE]
Invitation(m, role) ==
  [is |-> "staff", sub |-> NoOne, email |-> m, role |-> role, active |-> TRUE]

\* create: a row with a role and an address, unless the address has one.
Invite(h, r, m, role) ==
  /\ IsAdmins(h)
  /\ user[r] = Unused
  /\ \A x \in Existing : user[x].email # m
  /\ user' = [user EXCEPT ![r] = Invitation(m, role)]
  /\ Done(h)
  /\ UNCHANGED overlapped

\* setRole, setActive: never of oneself; the row is loaded, and if it is
\* already as asked nothing is done.
Load(h, r, change) ==
  /\ IsAdmins(h)
  /\ r \in Existing \ {req[h].by}
  /\ user[r][change.field] # change.to
  /\ Goes(h, [at |-> "loaded", by |-> req[h].by, target |-> r, change |-> change])
  /\ UNCHANGED <<user, overlapped>>

\* notTheLastAdmin: another admin who is active and has signed in.
CoveredByInvited(r) ==
  \E x \in Existing \ {r} : user[x].role = "admin" /\ user[x].active
Covered(r) ==
  \E x \in Existing \ {r} : user[x].role = "admin" /\ user[x].active /\ user[x].sub # NoOne

\* Reactivating carries no guard.
Guarded(change) == change # [field |-> "active", to |-> TRUE]

\* The WHERE of the UPDATE, for the row as it is now.
Matches(r, change, covered) ==
  /\ r \in Existing
  /\ Guarded(change) => user[r].role # "admin" \/ covered

\* The UPDATE starts, or finds no row and the request is refused.
UpdateStart(h) ==
  LET q == req[h]
      covered == Covered(q.target) IN
  /\ q.at = "loaded"
  /\ IF Matches(q.target, q.change, covered)
     THEN /\ Goes(h, [at |-> "updating", by |-> q.by, target |-> q.target,
                      change |-> q.change, covered |-> covered])
          /\ overlapped' = (overlapped \/ \E k \in Requests : req[k].at = "updating")
     ELSE Done(h) /\ UNCHANGED overlapped
  /\ UNCHANGED user

\* ... and writes its row, unless that has changed and matches no more.
UpdateWrite(h) ==
  LET q == req[h] IN
  /\ q.at = "updating"
  /\ user' = IF Matches(q.target, q.change, q.covered)
             THEN [user EXCEPT ![q.target] = IF q.change.field = "role"
                     THEN [@ EXCEPT !.role = q.change.to]
                     ELSE [@ EXCEPT !.active = q.change.to]]
             ELSE user
  /\ Done(h)
  /\ UNCHANGED overlapped

\* revokeInvitation: the row is deleted, if it is still unclaimed.
Revocable == {r \in Existing : user[r].sub = NoOne}
Revoke(h) ==
  /\ IsAdmins(h)
  /\ \E r \in Revocable : user' = [user EXCEPT ![r] = Gone]
  /\ Done(h)
  /\ UNCHANGED overlapped

\* Every other request, and every one that is refused or changes nothing.
Finish(h) ==
  /\ req[h].at = "admitted"
  /\ Done(h)
  /\ UNCHANGED <<user, overlapped>>

Next == \E h \in Requests :
  \/ \E p \in People : \E m \in VerifiedOf[p] \cup {NoEmail} : Authenticate(h, p, m)
  \/ Claim(h)
  \/ \E r \in Rows, m \in Emails, role \in Roles : Invite(h, r, m, role)
  \/ \E r \in Rows, change \in Changes : Load(h, r, change)
  \/ UpdateStart(h) \/ UpdateWrite(h)
  \/ Revoke(h)
  \/ Finish(h)

Spec == Init /\ [][Next]_vars

-----------------------------------------------------------------------------
(* Properties.                                                             *)

\* A person has at most one row and an address at most one invitation or row,
\* however many first requests and invitations race: the guard never has to
\* choose between two authorizations (schema.ts:63-67, 91-93).
OneRowEach ==
  \A a, b \in Existing : a # b =>
    /\ user[a].sub = user[b].sub => user[a].sub = NoOne
    /\ user[a].email = user[b].email => user[a].email = NoEmail

\* A role goes only to a person who has proved the address it was offered to,
\* whoever else signs in meanwhile (jwt-auth.guard.ts:108-135).
ClaimedByAddressee ==
  \A r \in Existing \ {Root} : user[r].sub # NoOne => user[r].email \in VerifiedOf[user[r].sub]

\* An identity is attached to a row exactly once, and a row that has one is
\* never deleted or given to anyone else: runs and audit entries point at it
\* (staff.service.ts:198-203, schema.ts:55-56).
LinkedForGood ==
  [][\A r \in Existing : user[r].sub # NoOne =>
       user'[r].is = "staff" /\ user'[r].sub = user[r].sub]_user

SomeAdmin == \E r \in Existing : user[r].role = "admin" /\ user[r].active /\ user[r].sub # NoOne

\* As long as guarded UPDATEs do not overlap, somebody can sign in and
\* administer, even when admins who lost the role finish what they were
\* admitted for (staff.service.ts:222-231).
AdminRemainsAlone == overlapped \/ SomeAdmin

\* Two admins demoting each other concurrently do not leave the organization
\* with nobody who can administer it (staff.service.ts:222-226).
AdminRemains == SomeAdmin
=============================================================================
