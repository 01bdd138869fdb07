------------------------ MODULE StaffDirectoryProofs ------------------------
(***************************************************************************)
(* What holds of StaffDirectory for any people, addresses, rows and number *)
(* of requests in progress.                                                *)
(***************************************************************************)
EXTENDS StaffDirectory, TLAPS

Claiming == [at : {"claiming"}, sub : People, email : Emails]
AdmittedAs == [at : {"admitted"}, by : Rows, role : Roles]
Loaded == [at : {"loaded"}, by : Rows, target : Rows, change : Changes]
Updating ==
  [at : {"updating"}, by : Rows, target : Rows, change : Changes, covered : BOOLEAN]

\* The initial state is well typed.
LEMMA InitTyped == Init => TypeOK
<1> SUFFICES ASSUME Init PROVE TypeOK
  OBVIOUS
<1>1. [is |-> "staff", sub |-> Founder, email |-> NoEmail, role |-> "admin", active |-> TRUE] \in Staff
  BY StaffDirectoryAssumption DEF Staff, StaffDirectoryAssumption
<1>2. user \in [Rows -> {Unused, Gone} \cup Staff]
  BY <1>1 DEF Init
<1>3. Existing = {Root} /\ user[Root].sub = Founder
  BY StaffDirectoryAssumption DEF Init, Existing, Unused, StaffDirectoryAssumption
<1>4. Founder # NoOne
  BY StaffDirectoryAssumption DEF StaffDirectoryAssumption
<1> QED
  BY <1>2, <1>3, <1>4 DEF Init, TypeOK, Idle

\* What a row is.
LEMMA ExistingRows ==
  ASSUME TypeOK, NEW r \in Existing
  PROVE  r \in Rows /\ user[r] \in Staff
BY DEF Existing, TypeOK, Unused, Gone

\* What a request is at each of its steps.
LEMMA RequestStates ==
  ASSUME TypeOK, NEW h \in Requests
  PROVE  /\ req[h].at = "claiming" => req[h] \in Claiming
         /\ req[h].at = "admitted" => req[h] \in AdmittedAs
         /\ req[h].at = "loaded" => req[h] \in Loaded
         /\ req[h].at = "updating" => req[h] \in Updating
BY DEF TypeOK, Idle, Claiming, AdmittedAs, Loaded, Updating

\* How the rows may change: one row is claimed, one is added, one is changed by
\* an admin, one is deleted.
Claimed(p, m) ==
  \E r \in Claimable(m) : SubjectFree(p) /\ user' = [user EXCEPT ![r].sub = p]
Invited ==
  \E r \in Rows, m \in Emails, role \in Roles :
    /\ user[r] = Unused /\ \A x \in Existing : user[x].email # m
    /\ user' = [user EXCEPT ![r] = Invitation(m, role)]
Changed ==
  \E r \in Existing :
    \/ \E role \in Roles : user' = [user EXCEPT ![r] = [@ EXCEPT !.role = role]]
    \/ \E active \in BOOLEAN : user' = [user EXCEPT ![r] = [@ EXCEPT !.active = active]]
Deleted == \E r \in Revocable : user' = [user EXCEPT ![r] = Gone]

\* Every step changes the rows in one of these ways or not at all.
LEMMA RowStep ==
  ASSUME TypeOK, [Next]_vars
  PROVE  \/ UNCHANGED user
         \/ \E h \in Requests : req[h].at = "claiming" /\ Claimed(req[h].sub, req[h].email)
         \/ Invited \/ Changed \/ Deleted
<1>1. ASSUME NEW h \in Requests, Claim(h)
      PROVE  UNCHANGED user \/ (req[h].at = "claiming" /\ Claimed(req[h].sub, req[h].email))
  BY <1>1 DEF Claim, Claimed
<1>2. ASSUME NEW h \in Requests, NEW r \in Rows, NEW m \in Emails, NEW role \in Roles,
             Invite(h, r, m, role)
      PROVE  Invited
  BY <1>2 DEF Invite, Invited
<1>3. ASSUME NEW h \in Requests, UpdateWrite(h) PROVE UNCHANGED user \/ Changed
  <2> DEFINE q == req[h]
  <2>1. q.at = "updating"
    BY <1>3 DEF UpdateWrite
  <2>2. q \in Updating
    BY <2>1, RequestStates
  <2>3. CASE Matches(q.target, q.change, q.covered)
    <3>1. q.target \in Existing
      BY <2>3 DEF Matches
    <3>2. q.change \in Changes
      BY <2>2 DEF Updating
    <3>3. CASE q.change.field = "role"
      <4>1. user' = [user EXCEPT ![q.target] = [@ EXCEPT !.role = q.change.to]]
        BY <1>3, <2>3, <3>3 DEF UpdateWrite
      <4>2. q.change.to \in Roles
        BY <3>2, <3>3 DEF Changes
      <4> QED
        BY <3>1, <4>1, <4>2 DEF Changed
    <3>4. CASE q.change.field # "role"
      <4>1. user' = [user EXCEPT ![q.target] = [@ EXCEPT !.active = q.change.to]]
        BY <1>3, <2>3, <3>4 DEF UpdateWrite
      <4>2. q.change.to \in BOOLEAN
        BY <3>2, <3>4 DEF Changes
      <4> QED
        BY <3>1, <4>1, <4>2 DEF Changed
    <3> QED
      BY <3>3, <3>4
  <2>4. CASE ~Matches(q.target, q.change, q.covered)
    BY <1>3, <2>4 DEF UpdateWrite
  <2> QED
    BY <2>3, <2>4
<1>4. ASSUME NEW h \in Requests, Revoke(h) PROVE Deleted
  BY <1>4 DEF Revoke, Deleted
<1> QED
  BY <1>1, <1>2, <1>3, <1>4 DEF Next, vars, Authenticate, Load, UpdateStart, Finish

\* The rows one step later, field by field.
LEMMA RowsAfter ==
  ASSUME TypeOK, [Next]_vars
  PROVE  /\ user' \in [Rows -> {Unused, Gone} \cup Staff]
         /\ \A r \in Existing' : user'[r].sub # NoOne \/ user'[r].email # NoEmail
<1>1. CASE UNCHANGED user
  BY <1>1 DEF TypeOK, Existing
<1>2. ASSUME NEW h \in Requests, req[h].at = "claiming", Claimed(req[h].sub, req[h].email)
      PROVE  /\ user' \in [Rows -> {Unused, Gone} \cup Staff]
             /\ \A r \in Existing' : user'[r].sub # NoOne \/ user'[r].email # NoEmail
  <2>1. req[h].sub \in People /\ req[h].email \in Emails
    BY <1>2, RequestStates DEF Claiming
  <2>2. PICK r \in Existing : user' = [user EXCEPT ![r].sub = req[h].sub]
    BY <1>2 DEF Claimed, Claimable
  <2>3. [user[r] EXCEPT !.sub = req[h].sub] \in Staff
    BY <2>1, <2>2, ExistingRows DEF Staff
  <2>4. [user[r] EXCEPT !.sub = req[h].sub].sub # NoOne
    <3>1. user[r] \in Staff
      BY <2>2, ExistingRows
    <3> QED
      BY <2>1, <3>1, StaffDirectoryAssumption DEF Staff, StaffDirectoryAssumption
  <2>5. r \in Rows
    BY <2>2, ExistingRows
  <2>6. user' \in [Rows -> {Unused, Gone} \cup Staff] /\ user'[r].sub # NoOne
    BY <2>2, <2>3, <2>4, <2>5 DEF TypeOK
  <2>7. \A x \in Rows \ {r} : user'[x] = user[x]
    BY <2>2 DEF TypeOK
  <2> QED
    BY <2>6, <2>7 DEF TypeOK, Existing
<1>3. CASE Invited
  <2>1. PICK r \in Rows, m \in Emails, role \in Roles :
          user' = [user EXCEPT ![r] = Invitation(m, role)]
    BY <1>3 DEF Invited
  <2>2. Invitation(m, role) \in Staff /\ Invitation(m, role).email # NoEmail
    BY StaffDirectoryAssumption DEF Invitation, Staff, StaffDirectoryAssumption
  <2>3. user' \in [Rows -> {Unused, Gone} \cup Staff] /\ user'[r].email # NoEmail
    BY <2>1, <2>2 DEF TypeOK
  <2>4. \A x \in Rows \ {r} : user'[x] = user[x]
    BY <2>1 DEF TypeOK
  <2> QED
    BY <2>3, <2>4 DEF TypeOK, Existing
<1>4. CASE Changed
  <2>1. PICK r \in Existing :
          \/ \E role \in Roles : user' = [user EXCEPT ![r] = [@ EXCEPT !.role = role]]
          \/ \E active \in BOOLEAN : user' = [user EXCEPT ![r] = [@ EXCEPT !.active = active]]
    BY <1>4 DEF Changed
  <2>2. r \in Rows /\ user[r] \in Staff
    BY <2>1, ExistingRows
  <2>3. /\ \A role \in Roles : [user[r] EXCEPT !.role = role] \in Staff
        /\ \A active \in BOOLEAN : [user[r] EXCEPT !.active = active] \in Staff
    BY <2>2 DEF Staff
  <2>4. user' \in [Rows -> {Unused, Gone} \cup Staff]
    BY <2>1, <2>2, <2>3 DEF TypeOK
  <2>5. user'[r].sub = user[r].sub /\ user'[r].email = user[r].email
    BY <2>1, <2>2 DEF TypeOK, Staff
  <2>6. \A x \in Rows \ {r} : user'[x] = user[x]
    BY <2>1 DEF TypeOK
  <2> QED
    BY <2>1, <2>4, <2>5, <2>6 DEF TypeOK, Existing
<1>5. CASE Deleted
  <2>1. PICK r \in Rows : user' = [user EXCEPT ![r] = Gone]
    BY <1>5 DEF Deleted, Revocable, Existing
  <2>2. user' \in [Rows -> {Unused, Gone} \cup Staff] /\ user'[r].is # "staff"
    BY <2>1 DEF TypeOK, Gone
  <2>3. \A x \in Rows \ {r} : user'[x] = user[x]
    BY <2>1 DEF TypeOK
  <2> QED
    BY <2>2, <2>3 DEF TypeOK, Existing
<1> QED
  BY <1>1, <1>2, <1>3, <1>4, <1>5, RowStep

\* What a step makes of the request it is a step of.
LEMMA RequestsAfter ==
  ASSUME TypeOK, [Next]_vars, NEW h \in Requests
  PROVE  \/ req'[h] = req[h] \/ req'[h] = Idle
         \/ /\ req[h] = Idle
            /\ \E p \in People : \E m \in VerifiedOf[p] :
                 req'[h] = [at |-> "claiming", sub |-> p, email |-> m]
         \/ req'[h] \in AdmittedAs \cup Loaded \cup Updating
<1>1. ASSUME NEW g \in Requests, NEW q, Goes(g, q), g # h PROVE req'[h] = req[h]
  BY <1>1 DEF Goes, TypeOK
<1>2. ASSUME NEW q, Goes(h, q) PROVE req'[h] = q
  BY <1>2 DEF Goes, TypeOK
<1>3. ASSUME NEW r \in Existing PROVE Admitted(r, user[r]) \in AdmittedAs
  BY ExistingRows DEF Admitted, AdmittedAs, Staff
<1>4. ASSUME NEW g \in Requests, NEW p \in People, NEW m \in VerifiedOf[p] \cup {NoEmail},
             Authenticate(g, p, m)
      PROVE  \/ req'[h] = req[h] \/ req'[h] \in AdmittedAs
             \/ req[h] = Idle /\ m # NoEmail /\ req'[h] = [at |-> "claiming", sub |-> p, email |-> m]
  <2>1. CASE \E r \in LinkedTo(p) : user[r].active /\ Goes(g, Admitted(r, user[r]))
    BY <1>1, <1>2, <1>3, <2>1 DEF LinkedTo
  <2>2. CASE m # NoEmail /\ Goes(g, [at |-> "claiming", sub |-> p, email |-> m])
    BY <1>1, <1>2, <1>4, <2>2 DEF Authenticate
  <2> QED
    BY <1>4, <2>1, <2>2 DEF Authenticate
<1>5. ASSUME NEW g \in Requests, Claim(g)
      PROVE  req'[h] = req[h] \/ req'[h] = Idle \/ req'[h] \in AdmittedAs
  BY <1>1, <1>2, <1>3, <1>5 DEF Claim, Claimable, Done
<1>6. ASSUME NEW g \in Requests, NEW r \in Rows, NEW change \in Changes, Load(g, r, change)
      PROVE  req'[h] = req[h] \/ req'[h] \in Loaded
  <2>1. req[g].by \in Rows
    BY <1>6, RequestStates DEF Load, IsAdmins, AdmittedAs
  <2>2. [at |-> "loaded", by |-> req[g].by, target |-> r, change |-> change] \in Loaded
    BY <2>1 DEF Loaded
  <2> QED
    BY <1>1, <1>2, <1>6, <2>2 DEF Load
<1>7. ASSUME NEW g \in Requests, UpdateStart(g)
      PROVE  req'[h] = req[h] \/ req'[h] = Idle \/ req'[h] \in Updating
  <2>1. req[g] \in Loaded
    BY <1>7, RequestStates DEF UpdateStart
  <2>2. [at |-> "updating", by |-> req[g].by, target |-> req[g].target,
         change |-> req[g].change, covered |-> Covered(req[g].target)] \in Updating
    BY <2>1 DEF Loaded, Updating, Covered
  <2> QED
    BY <1>1, <1>2, <1>7, <2>2 DEF UpdateStart, Done
<1>8. ASSUME NEW g \in Requests, Done(g) PROVE req'[h] = req[h] \/ req'[h] = Idle
  BY <1>1, <1>2, <1>8 DEF Done
<1>9. CASE UNCHANGED vars
  BY <1>9 DEF vars
<1> QED
  BY <1>4, <1>5, <1>6, <1>7, <1>8, <1>9 DEF Next, Invite, UpdateWrite, Revoke, Finish

\* Every step keeps the types.
LEMMA TypeStep == TypeOK /\ [Next]_vars => TypeOK'
<1> SUFFICES ASSUME TypeOK, [Next]_vars PROVE TypeOK'
  OBVIOUS
<1> DEFINE States == {Idle} \cup Claiming \cup AdmittedAs \cup Loaded \cup Updating
<1>1. ASSUME NEW h \in Requests PROVE req'[h] \in States
  <2>1. req[h] \in States
    BY DEF TypeOK, Claiming, AdmittedAs, Loaded, Updating
  <2>2. \A p \in People : \A m \in VerifiedOf[p] :
          [at |-> "claiming", sub |-> p, email |-> m] \in Claiming
    BY StaffDirectoryAssumption DEF Claiming, StaffDirectoryAssumption
  <2> QED
    BY <2>1, <2>2, RequestsAfter
<1>2. req' = [h \in Requests |-> req'[h]]
  BY DEF TypeOK, Next, vars, Authenticate, Claim, Invite, Load, UpdateStart, UpdateWrite,
         Revoke, Finish, Goes, Done
<1>3. overlapped' \in BOOLEAN
  BY DEF TypeOK, Next, vars, Authenticate, Claim, Invite, Load, UpdateStart, UpdateWrite,
         Revoke, Finish
<1> QED
  BY <1>1, <1>2, <1>3, RowsAfter DEF TypeOK, Claiming, AdmittedAs, Loaded, Updating

\* The types hold in every reachable state, whatever the constants are.
THEOREM TypeCorrect == Spec => []TypeOK
  BY InitTyped, TypeStep, PTL DEF Spec

-----------------------------------------------------------------------------
(* One row each, given to whom it was offered.                             *)

\* Every step keeps people and addresses to one row.
LEMMA OneRowStep == TypeOK /\ OneRowEach /\ [Next]_vars => OneRowEach'
<1> SUFFICES ASSUME TypeOK, OneRowEach, [Next]_vars PROVE OneRowEach'
  OBVIOUS
<1>1. CASE UNCHANGED user
  BY <1>1 DEF OneRowEach, Existing
<1>2. ASSUME NEW h \in Requests, req[h].at = "claiming", Claimed(req[h].sub, req[h].email)
      PROVE  OneRowEach'
  <2>1. PICK r \in Existing :
          user' = [user EXCEPT ![r].sub = req[h].sub] /\ LinkedTo(req[h].sub) = {}
    BY <1>2 DEF Claimed, Claimable, SubjectFree
  <2>2. r \in Rows /\ user[r] \in Staff
    BY <2>1, ExistingRows
  <2>3. user'[r].sub = req[h].sub /\ user'[r].email = user[r].email
    BY <2>1, <2>2 DEF TypeOK, Staff
  <2>4. \A x \in Rows \ {r} : user'[x] = user[x]
    BY <2>1 DEF TypeOK
  <2>5. \A x \in Existing : user[x].sub # req[h].sub
    BY <2>1 DEF LinkedTo
  <2>6. Existing' \subseteq Existing
    BY <2>1, <2>4 DEF Existing
  <2> QED
    BY <2>1, <2>3, <2>4, <2>5, <2>6 DEF OneRowEach, Existing
<1>3. CASE Invited
  <2>1. PICK r \in Rows, m \in Emails, role \in Roles :
          /\ \A x \in Existing : user[x].email # m
          /\ user' = [user EXCEPT ![r] = Invitation(m, role)]
    BY <1>3 DEF Invited
  <2>2. user'[r].sub = NoOne /\ user'[r].email = m
    BY <2>1 DEF TypeOK, Invitation
  <2>3. \A x \in Rows \ {r} : user'[x] = user[x]
    BY <2>1 DEF TypeOK
  <2> QED
    BY <2>1, <2>2, <2>3 DEF OneRowEach, Existing
<1>4. CASE Changed
  <2>1. PICK r \in Existing :
          \/ \E role \in Roles : user' = [user EXCEPT ![r] = [@ EXCEPT !.role = role]]
          \/ \E active \in BOOLEAN : user' = [user EXCEPT ![r] = [@ EXCEPT !.active = active]]
    BY <1>4 DEF Changed
  <2>2. r \in Rows /\ user[r] \in Staff
    BY <2>1, ExistingRows
  <2>3. user'[r].sub = user[r].sub /\ user'[r].email = user[r].email
    BY <2>1, <2>2 DEF TypeOK, Staff
  <2>4. \A x \in Rows \ {r} : user'[x] = user[x]
    BY <2>1 DEF TypeOK
  <2> QED
    BY <2>1, <2>3, <2>4 DEF OneRowEach, Existing
<1>5. CASE Deleted
  <2>1. PICK r \in Rows : user' = [user EXCEPT ![r] = Gone]
    BY <1>5 DEF Deleted, Revocable, Existing
  <2>2. user'[r].is # "staff"
    BY <2>1 DEF TypeOK, Gone
  <2>3. \A x \in Rows \ {r} : user'[x] = user[x]
    BY <2>1 DEF TypeOK
  <2> QED
    BY <2>2, <2>3 DEF OneRowEach, Existing
<1> QED
  BY <1>1, <1>2, <1>3, <1>4, <1>5, RowStep

\* A person has one row at most and an address one row or invitation at most,
\* whoever races whom.
THEOREM OneRow == Spec => []OneRowEach
<1>1. Init => OneRowEach
  BY DEF Init, OneRowEach, Existing, Unused
<1> QED
  BY <1>1, TypeCorrect, OneRowStep, PTL DEF Spec

\* Who claims an address has proved it.
Proved ==
  \A h \in Requests : req[h].at = "claiming" => req[h].email \in VerifiedOf[req[h].sub]

\* Requests claim only what their person has proved.
LEMMA ProvedStep == TypeOK /\ Proved /\ [Next]_vars => Proved'
<1> SUFFICES ASSUME TypeOK, Proved, [Next]_vars, NEW h \in Requests, req'[h].at = "claiming"
             PROVE  req'[h].email \in VerifiedOf[req'[h].sub]
  BY DEF Proved
<1>1. CASE req'[h] = req[h]
  BY <1>1 DEF Proved
<1>2. ASSUME NEW p \in People, NEW m \in VerifiedOf[p],
             req'[h] = [at |-> "claiming", sub |-> p, email |-> m]
      PROVE  req'[h].email \in VerifiedOf[req'[h].sub]
  BY <1>2
<1>3. req'[h] # Idle /\ req'[h] \notin AdmittedAs \cup Loaded \cup Updating
  BY DEF Idle, AdmittedAs, Loaded, Updating
<1> QED
  BY <1>1, <1>2, <1>3, RequestsAfter

\* Every step gives rows to people who have proved their addresses.
LEMMA ClaimStep == TypeOK /\ Proved /\ ClaimedByAddressee /\ [Next]_vars => ClaimedByAddressee'
<1> SUFFICES ASSUME TypeOK, Proved, ClaimedByAddressee, [Next]_vars PROVE ClaimedByAddressee'
  OBVIOUS
<1>1. CASE UNCHANGED user
  BY <1>1 DEF ClaimedByAddressee, Existing
<1>2. ASSUME NEW h \in Requests, req[h].at = "claiming", Claimed(req[h].sub, req[h].email)
      PROVE  ClaimedByAddressee'
  <2>1. PICK r \in Existing :
          user' = [user EXCEPT ![r].sub = req[h].sub] /\ user[r].email = req[h].email
    BY <1>2 DEF Claimed, Claimable
  <2>2. r \in Rows /\ user[r] \in Staff
    BY <2>1, ExistingRows
  <2>3. user'[r].sub = req[h].sub /\ user'[r].email = req[h].email
    BY <2>1, <2>2 DEF TypeOK, Staff
  <2>4. \A x \in Rows \ {r} : user'[x] = user[x]
    BY <2>1 DEF TypeOK
  <2> QED
    BY <1>2, <2>1, <2>3, <2>4 DEF ClaimedByAddressee, Existing, Proved
<1>3. CASE Invited
  <2>1. PICK r \in Rows, m \in Emails, role \in Roles :
          user' = [user EXCEPT ![r] = Invitation(m, role)]
    BY <1>3 DEF Invited
  <2>2. user'[r].sub = NoOne
    BY <2>1 DEF TypeOK, Invitation
  <2>3. \A x \in Rows \ {r} : user'[x] = user[x]
    BY <2>1 DEF TypeOK
  <2> QED
    BY <2>2, <2>3 DEF ClaimedByAddressee, Existing
<1>4. CASE Changed
  <2>1. PICK r \in Existing :
          \/ \E role \in Roles : user' = [user EXCEPT ![r] = [@ EXCEPT !.role = role]]
          \/ \E active \in BOOLEAN : user' = [user EXCEPT ![r] = [@ EXCEPT !.active = active]]
    BY <1>4 DEF Changed
  <2>2. r \in Rows /\ user[r] \in Staff
    BY <2>1, ExistingRows
  <2>3. user'[r].sub = user[r].sub /\ user'[r].email = user[r].email
    BY <2>1, <2>2 DEF TypeOK, Staff
  <2>4. \A x \in Rows \ {r} : user'[x] = user[x]
    BY <2>1 DEF TypeOK
  <2> QED
    BY <2>1, <2>3, <2>4 DEF ClaimedByAddressee, Existing
<1>5. CASE Deleted
  <2>1. PICK r \in Rows : user' = [user EXCEPT ![r] = Gone]
    BY <1>5 DEF Deleted, Revocable, Existing
  <2>2. user'[r].is # "staff"
    BY <2>1 DEF TypeOK, Gone
  <2>3. \A x \in Rows \ {r} : user'[x] = user[x]
    BY <2>1 DEF TypeOK
  <2> QED
    BY <2>2, <2>3 DEF ClaimedByAddressee, Existing
<1> QED
  BY <1>1, <1>2, <1>3, <1>4, <1>5, RowStep

\* Every row but the founder's belongs to somebody who has proved its address.
THEOREM AddresseesClaim == Spec => []ClaimedByAddressee
<1>1. Init => Proved /\ ClaimedByAddressee
  BY DEF Init, Proved, ClaimedByAddressee, Existing, Unused, Idle
<1> QED
  BY <1>1, TypeCorrect, ProvedStep, ClaimStep, PTL DEF Spec

\* A row with a person is never deleted nor given to anyone else.
THEOREM LinksHold == Spec => LinkedForGood
<1>1. ASSUME TypeOK, [Next]_vars, NEW r \in Existing, user[r].sub # NoOne
      PROVE  user'[r].is = "staff" /\ user'[r].sub = user[r].sub
  <2>1. r \in Rows /\ user[r] \in Staff /\ user[r].is = "staff"
    BY <1>1, ExistingRows DEF Existing
  <2>2. CASE UNCHANGED user
    BY <2>1, <2>2
  <2>3. ASSUME NEW h \in Requests, Claimed(req[h].sub, req[h].email) PROVE user'[r] = user[r]
    <3>1. PICK x \in Existing \ {r} : user' = [user EXCEPT ![x].sub = req[h].sub]
      BY <1>1, <2>3 DEF Claimed, Claimable
    <3> QED
      BY <3>1
  <2>4. CASE Invited
    <3>1. PICK x \in Rows, m \in Emails, role \in Roles :
            user[x] = Unused /\ user' = [user EXCEPT ![x] = Invitation(m, role)]
      BY <2>4 DEF Invited
    <3>2. x # r
      BY <2>1, <3>1 DEF Unused
    <3> QED
      BY <1>1, <2>1, <3>1, <3>2 DEF TypeOK
  <2>5. CASE Changed
    <3>1. PICK x \in Existing :
            \/ \E role \in Roles : user' = [user EXCEPT ![x] = [@ EXCEPT !.role = role]]
            \/ \E active \in BOOLEAN : user' = [user EXCEPT ![x] = [@ EXCEPT !.active = active]]
      BY <2>5 DEF Changed
    <3> QED
      BY <1>1, <2>1, <3>1 DEF TypeOK, Staff
  <2>6. CASE Deleted
    <3>1. PICK x \in Rows \ {r} : user' = [user EXCEPT ![x] = Gone]
      BY <1>1, <2>6 DEF Deleted, Revocable, Existing
    <3> QED
      BY <1>1, <2>1, <3>1 DEF TypeOK
  <2> QED
    BY <1>1, <2>1, <2>2, <2>3, <2>4, <2>5, <2>6, RowStep
<1>2. TypeOK /\ [Next]_vars =>
        [\A r \in Existing : user[r].sub # NoOne =>
           user'[r].is = "staff" /\ user'[r].sub = user[r].sub]_user
  BY <1>1
<1> QED
  BY <1>2, TypeCorrect, PTL DEF Spec, LinkedForGood

-----------------------------------------------------------------------------
(* Somebody can administer.                                                *)

\* An active admin who has signed in.
IsAdmin(r) ==
  user[r].is = "staff" /\ user[r].role = "admin" /\ user[r].active /\ user[r].sub # NoOne

\* Unless two guarded UPDATEs have overlapped there is an admin, one UPDATE at
\* most is under way, and the admin who covers it is still there.
Alone ==
  ~overlapped =>
    /\ \E r \in Rows : IsAdmin(r)
    /\ \A g, h \in Requests : req[g].at = "updating" /\ req[h].at = "updating" => g = h
    /\ \A h \in Requests : req[h].at = "updating" /\ req[h].covered =>
         \E r \in Rows \ {req[h].target} : IsAdmin(r)

\* An admin stays one but for an UPDATE of the row.
LEMMA AdminsStay ==
  ASSUME TypeOK, [Next]_vars, NEW r \in Rows, IsAdmin(r)
  PROVE  \/ IsAdmin(r)'
         \/ \E h \in Requests :
              /\ UpdateWrite(h) /\ req[h].target = r
              /\ Matches(r, req[h].change, req[h].covered)
<1> user[r] \in Staff /\ r \in Existing
  BY DEF IsAdmin, Existing, TypeOK, Unused, Gone
<1>1. CASE user' = user
  BY <1>1 DEF IsAdmin
<1>2. ASSUME NEW h \in Requests, Claim(h) PROVE user'[r] = user[r]
  <2>1. \/ user' = user
        \/ \E x \in Claimable(req[h].email) : user' = [user EXCEPT ![x].sub = req[h].sub]
    BY <1>2 DEF Claim
  <2> QED
    BY <2>1 DEF Claimable, IsAdmin, TypeOK
<1>3. ASSUME NEW h \in Requests, NEW x \in Rows, NEW m \in Emails, NEW role \in Roles,
             Invite(h, x, m, role)
      PROVE  user'[r] = user[r]
  <2>1. x # r
    BY <1>3 DEF Invite, Unused, IsAdmin
  <2> QED
    BY <1>3, <2>1 DEF Invite, TypeOK
<1>4. ASSUME NEW h \in Requests, Revoke(h) PROVE user'[r] = user[r]
  BY <1>4 DEF Revoke, Revocable, IsAdmin, TypeOK
<1>5. ASSUME NEW h \in Requests, UpdateWrite(h)
      PROVE  \/ user'[r] = user[r]
             \/ req[h].target = r /\ Matches(r, req[h].change, req[h].covered)
  <2>1. CASE ~Matches(req[h].target, req[h].change, req[h].covered)
    BY <1>5, <2>1 DEF UpdateWrite
  <2>2. CASE req[h].target # r
    BY <1>5, <2>2 DEF UpdateWrite, TypeOK
  <2> QED
    BY <2>1, <2>2
<1>6. user'[r] = user[r] => IsAdmin(r)'
  BY DEF IsAdmin
<1> QED
  BY <1>1, <1>2, <1>3, <1>4, <1>5, <1>6
  DEF Next, vars, Authenticate, Load, UpdateStart, Finish

\* An UPDATE is under way since before or has just started.
LEMMA Starts ==
  ASSUME TypeOK, [Next]_vars, NEW h \in Requests, req'[h].at = "updating"
  PROVE  \/ req'[h] = req[h]
         \/ /\ UpdateStart(h) /\ req[h].at = "loaded"
            /\ req'[h].target \in Rows
            /\ req'[h].covered = Covered(req'[h].target)
            /\ overlapped' = (overlapped \/ \E k \in Requests : req[k].at = "updating")
            /\ \A g \in Requests \ {h} : req'[g] = req[g]
<1>1. ASSUME UpdateStart(h)
      PROVE  /\ req[h].at = "loaded" /\ req'[h].target \in Rows
             /\ req'[h].covered = Covered(req'[h].target)
             /\ overlapped' = (overlapped \/ \E k \in Requests : req[k].at = "updating")
             /\ \A g \in Requests \ {h} : req'[g] = req[g]
  <2>1. req[h] \in Loaded
    BY <1>1, RequestStates DEF UpdateStart
  <2>2. ~Done(h)
    BY DEF Done, Goes, Idle, TypeOK
  <2>3. req'[h] = [at |-> "updating", by |-> req[h].by, target |-> req[h].target,
                   change |-> req[h].change, covered |-> Covered(req[h].target)]
    BY <1>1, <2>2 DEF UpdateStart, Goes, TypeOK
  <2>4. req'[h].target = req[h].target /\ req'[h].covered = Covered(req[h].target)
    BY <2>3
  <2>5. \A g \in Requests \ {h} : req'[g] = req[g]
    BY <1>1, <2>2 DEF UpdateStart, Goes, TypeOK
  <2>6. overlapped' = (overlapped \/ \E k \in Requests : req[k].at = "updating")
    BY <1>1, <2>2 DEF UpdateStart
  <2> QED
    BY <1>1, <2>1, <2>4, <2>5, <2>6 DEF UpdateStart, Loaded
<1>2. ASSUME NEW g \in Requests, UpdateStart(g), g # h PROVE req'[h] = req[h]
  BY <1>2 DEF UpdateStart, Goes, Done, TypeOK
<1>3. ASSUME NEW g \in Requests, Done(g) PROVE req'[h] = req[h]
  BY <1>3 DEF Done, Goes, Idle, TypeOK
<1>4. ASSUME NEW g \in Requests, NEW q, Goes(g, q), q.at # "updating" PROVE req'[h] = req[h]
  BY <1>4 DEF Goes, TypeOK
<1>5. ASSUME NEW g \in Requests, NEW p \in People, NEW m \in VerifiedOf[p] \cup {NoEmail},
             Authenticate(g, p, m)
      PROVE  req'[h] = req[h]
  BY <1>4, <1>5 DEF Authenticate, Admitted
<1>6. ASSUME NEW g \in Requests, Claim(g) PROVE req'[h] = req[h]
  BY <1>3, <1>4, <1>6 DEF Claim, Admitted
<1>7. ASSUME NEW g \in Requests, NEW r \in Rows, NEW change \in Changes, Load(g, r, change)
      PROVE  req'[h] = req[h]
  BY <1>4, <1>7 DEF Load
<1>8. CASE UNCHANGED vars
  BY <1>8 DEF vars
<1> QED
  BY <1>1, <1>2, <1>3, <1>5, <1>6, <1>7, <1>8 DEF Next, Invite, UpdateWrite, Revoke, Finish

\* Every step keeps Alone.
LEMMA AloneStep == TypeOK /\ Alone /\ [Next]_vars => Alone'
<1> SUFFICES ASSUME TypeOK, Alone, [Next]_vars, ~overlapped'
             PROVE  /\ \E r \in Rows : IsAdmin(r)'
                    /\ \A g, h \in Requests :
                         req'[g].at = "updating" /\ req'[h].at = "updating" => g = h
                    /\ \A h \in Requests : req'[h].at = "updating" /\ req'[h].covered =>
                         \E r \in Rows \ {req'[h].target} : IsAdmin(r)'
  BY DEF Alone, IsAdmin
<1>1. ~overlapped
  BY DEF Next, vars, Authenticate, Claim, Invite, Load, UpdateStart, UpdateWrite, Revoke, Finish
<1>2. \E r \in Rows : IsAdmin(r)'
  <2>1. PICK r \in Rows : IsAdmin(r)
    BY <1>1 DEF Alone
  <2>2. ASSUME NEW h \in Requests, UpdateWrite(h), req[h].target = r,
               Matches(r, req[h].change, req[h].covered)
        PROVE  \E x \in Rows : IsAdmin(x)'
    <3>1. CASE Guarded(req[h].change)
      <4>1. req[h].at = "updating" /\ req[h].covered
        BY <2>1, <2>2, <3>1 DEF UpdateWrite, Matches, IsAdmin
      <4>2. PICK x \in Rows \ {r} : IsAdmin(x)
        BY <1>1, <2>2, <4>1 DEF Alone
      <4>3. user'[x] = user[x]
        BY <2>2, <4>2 DEF UpdateWrite, TypeOK
      <4> QED
        BY <4>2, <4>3 DEF IsAdmin
    <3>2. CASE ~Guarded(req[h].change)
      <4>1. req[h].change.field # "role" /\ req[h].change.to = TRUE
        BY <3>2 DEF Guarded
      <4>2. user'[r] = [user[r] EXCEPT !.active = TRUE]
        BY <2>2, <4>1 DEF UpdateWrite, TypeOK
      <4>3. user[r] \in Staff
        BY <2>1 DEF IsAdmin, TypeOK, Unused, Gone
      <4> QED
        BY <2>1, <4>2, <4>3 DEF IsAdmin, Staff
    <3> QED
      BY <3>1, <3>2
  <2> QED
    BY <2>1, <2>2, AdminsStay
<1>3. ASSUME NEW g \in Requests, NEW h \in Requests,
             req'[g].at = "updating", req'[h].at = "updating"
      PROVE  g = h
  BY <1>1, <1>3, Starts DEF Alone
<1>4. ASSUME NEW h \in Requests, req'[h].at = "updating", req'[h].covered
      PROVE  \E r \in Rows \ {req'[h].target} : IsAdmin(r)'
  <2>1. CASE req'[h] = req[h]
    <3>1. PICK r \in Rows \ {req[h].target} : IsAdmin(r)
      BY <1>1, <1>4, <2>1 DEF Alone
    <3>2. ASSUME NEW g \in Requests, UpdateWrite(g) PROVE FALSE
      <4>1. g = h
        BY <1>1, <1>4, <2>1, <3>2 DEF UpdateWrite, Alone
      <4>2. req'[g] = Idle
        BY <3>2 DEF UpdateWrite, Done, Goes, TypeOK
      <4> QED
        BY <1>4, <4>1, <4>2 DEF Idle
    <3> QED
      BY <2>1, <3>1, <3>2, AdminsStay
  <2>2. CASE UpdateStart(h) /\ req'[h].covered = Covered(req'[h].target)
    <3>1. user' = user
      BY <2>2 DEF UpdateStart
    <3>2. \E r \in Rows \ {req'[h].target} : IsAdmin(r)
      BY <1>4, <2>2 DEF Covered, Existing, IsAdmin
    <3> QED
      BY <3>1, <3>2 DEF IsAdmin
  <2> QED
    BY <1>4, <2>1, <2>2, Starts
<1> QED
  BY <1>2, <1>3, <1>4

\* As long as guarded UPDATEs do not overlap, somebody can sign in and
\* administer (staff.service.ts:222-231): the guard is answered by a row that
\* stands until the UPDATE has written.
THEOREM AdminsRemain == Spec => []AdminRemainsAlone
<1>1. Init => Alone
  BY StaffDirectoryAssumption DEF Init, Alone, IsAdmin, Idle, StaffDirectoryAssumption
<1>2. TypeOK /\ Alone => AdminRemainsAlone
  BY DEF TypeOK, Alone, IsAdmin, AdminRemainsAlone, SomeAdmin, Existing
<1> QED
  BY <1>1, <1>2, TypeCorrect, AloneStep, PTL DEF Spec
=============================================================================
