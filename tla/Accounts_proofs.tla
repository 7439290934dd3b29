-------------------------- MODULE Accounts_proofs --------------------------
(***************************************************************************)
(* Proofs about Accounts, for every number of users, browsers, requests    *)
(* and commands in flight, and whatever the bounds.                        *)
(***************************************************************************)
EXTENDS Accounts, FiniteSetTheorems, WellFoundedInduction, TLAPS

------------------------------------------------------------------------------
(* Rows and requests *)

\* What user_service.py makes of a row is a row.
LEMMA NewRows ==
  ASSUME NEW row \in UserRows
  PROVE  /\ Bump(row) \in UserRows /\ Unlocked(row) \in UserRows
         /\ \A must \in BOOLEAN : WithPassword(row, must) \in UserRows
         /\ Disabled(row) \in UserRows /\ Enabled(row) \in UserRows
         /\ \A role \in Roles : InRole(row, role) \in UserRows
         /\ Failed(row) \in UserRows
<1>1. Bump(row) \in UserRows
  BY DEF UserRows, Bump
<1>2. Unlocked(row) \in UserRows
  BY DEF UserRows, Unlocked, Locks
<1>3. /\ \A r \in UserRows, x \in BOOLEAN : /\ [r EXCEPT !.must = x] \in UserRows
                                           /\ [r EXCEPT !.active = x] \in UserRows
      /\ \A r \in UserRows, x \in Roles : [r EXCEPT !.role = x] \in UserRows
  BY DEF UserRows
<1>4. \A must \in BOOLEAN : WithPassword(row, must) \in UserRows
  <2>1. \A r \in UserRows : Bump(r) \in UserRows
    BY DEF UserRows, Bump
  <2> QED BY <1>2, <1>3, <2>1 DEF WithPassword
<1>5. /\ Disabled(row) \in UserRows /\ Enabled(row) \in UserRows
      /\ \A role \in Roles : InRole(row, role) \in UserRows
  BY <1>1, <1>3 DEF Disabled, Enabled, InRole
<1>6. Failed(row) \in UserRows
  <2>1. CASE row.failed + 1 >= MaxFailed
    <3>1. [row EXCEPT !.failed = 0, !.locked = "future"] \in UserRows
      BY DEF UserRows, Locks
    <3> QED BY <2>1, <3>1 DEF Failed
  <2>2. CASE ~(row.failed + 1 >= MaxFailed)
    <3>1. [row EXCEPT !.failed = @ + 1] \in UserRows
      BY DEF UserRows
    <3> QED BY <2>2, <3>1 DEF Failed
  <2> QED BY <2>1, <2>2
<1> QED BY <1>1, <1>2, <1>4, <1>5, <1>6

\* Saving column by column keeps a row a row.
LEMMA SavedIsRow ==
  ASSUME NEW seen \in UserRows, NEW new \in UserRows, NEW row \in UserRows
  PROVE  Saved(seen, new, row) \in UserRows
BY DEF UserRows, Saved, Save

\* The requests in flight, as a set.
Requests == [kind: RequestKinds, user: Created, seen: UserRows, new: UserRows,
             browser: OrNull(Browsers), bumps: Nat]

\* A request that is not idle has the fields of one.
LEMMA InRequests ==
  ASSUME TypeOK, NEW slot \in Slots, requests[slot] # Idle
  PROVE  requests[slot] \in Requests
BY DEF TypeOK, Requests

\* A user that was created has a row.
LEMMA CreatedHasRow ==
  ASSUME TypeOK, NEW u \in Created
  PROVE  u \in Users /\ users[u] \in UserRows
BY DEF TypeOK, Created, OrNull

\* What each kind of request makes of the row it read.
NewRow(r) ==
  CASE r.kind = "signin"    -> Unlocked(r.seen)
    [] r.kind = "failure"   -> Failed(r.seen)
    [] r.kind = "change"    -> WithPassword(r.seen, FALSE)
    [] r.kind = "reset"     -> WithPassword(r.seen, FALSE)
    [] r.kind = "temporary" -> WithPassword(r.seen, TRUE)
    [] r.kind = "disable"   -> Disabled(r.seen)
    [] r.kind = "enable"    -> Enabled(r.seen)
    [] r.kind = "unlock"    -> Unlocked(r.seen)
    [] r.kind = "role"      -> InRole(r.seen, r.new.role)

\* The requests that may be accepted in the present state: they have read the
\* row of a user, and one that takes away an administrator leaves another.
AcceptedOK(r) ==
  /\ r \in Requests
  /\ r.seen = users[r.user] /\ r.bumps = bumps[r.user]
  /\ r.new = NewRow(r)
  /\ r.browser # Null => r.kind \in {"signin", "change"}
  /\ r.kind = "disable" => ~IsLastAdmin(r.seen)
  /\ r.kind = "role" => r.new.role = "admin" \/ ~IsLastAdmin(r.seen)

\* What a Begin step does.
LEMMA BeginAccepts ==
  ASSUME TypeOK, NEW slot \in Slots, Begin(slot)
  PROVE  /\ requests[slot] = Idle
         /\ \E r : AcceptedOK(r) /\ requests' = [requests EXCEPT ![slot] = r]
         /\ UNCHANGED <<users, cookies, ghosts>>
<1> DEFINE Req(kind, u, new, b) ==
      [kind |-> kind, user |-> u, seen |-> users[u], new |-> new, browser |-> b,
       bumps |-> bumps[u]]
<1>1. ASSUME NEW kind, NEW u, NEW new, NEW b, Accept(slot, kind, u, new, b),
             AcceptedOK(Req(kind, u, new, b))
      PROVE  /\ requests[slot] = Idle
             /\ \E r : AcceptedOK(r) /\ requests' = [requests EXCEPT ![slot] = r]
             /\ UNCHANGED <<users, cookies, ghosts>>
  BY <1>1 DEF Accept
<1>2. ASSUME NEW u \in Created, NEW kind \in RequestKinds, NEW new \in UserRows,
             NEW b \in OrNull(Browsers)
      PROVE  LET r == Req(kind, u, new, b) IN
             /\ r \in Requests
             /\ r.kind = kind /\ r.user = u /\ r.seen = users[u] /\ r.new = new
             /\ r.browser = b /\ r.bumps = bumps[u]
  BY <1>2, CreatedHasRow DEF Req, Requests, TypeOK
<1> HIDE DEF Req
<1>3. ASSUME NEW u \in Users, BeginFailure(slot, u)
      PROVE  /\ Accept(slot, "failure", u, Failed(users[u]), Null)
             /\ AcceptedOK(Req("failure", u, Failed(users[u]), Null))
  <2>1. u \in Created /\ users[u] \in UserRows
    BY <1>3, CreatedHasRow DEF BeginFailure
  <2>2. Failed(users[u]) \in UserRows
    BY <2>1, NewRows
  <2> DEFINE r == Req("failure", u, Failed(users[u]), Null)
  <2>3. /\ r \in Requests /\ r.kind = "failure" /\ r.user = u /\ r.seen = users[u]
        /\ r.new = Failed(users[u]) /\ r.browser = Null /\ r.bumps = bumps[u]
    BY <1>2, <2>1, <2>2 DEF RequestKinds, OrNull
  <2>4. AcceptedOK(r)
    BY <2>3 DEF AcceptedOK, NewRow
  <2> QED BY <1>3, <2>4 DEF BeginFailure
<1>4. ASSUME NEW u \in Users, NEW b \in Browsers, BeginSignIn(slot, u, b)
      PROVE  /\ Accept(slot, "signin", u, Unlocked(users[u]), b)
             /\ AcceptedOK(Req("signin", u, Unlocked(users[u]), b))
  <2>1. u \in Created /\ users[u] \in UserRows
    BY <1>4, CreatedHasRow DEF BeginSignIn
  <2>2. Unlocked(users[u]) \in UserRows
    BY <2>1, NewRows
  <2> DEFINE r == Req("signin", u, Unlocked(users[u]), b)
  <2>3. /\ r \in Requests /\ r.kind = "signin" /\ r.user = u /\ r.seen = users[u]
        /\ r.new = Unlocked(users[u]) /\ r.browser = b /\ r.bumps = bumps[u]
    BY <1>2, <2>1, <2>2 DEF RequestKinds, OrNull
  <2>4. AcceptedOK(r)
    BY <2>3 DEF AcceptedOK, NewRow
  <2> QED BY <1>4, <2>4 DEF BeginSignIn
<1>5. ASSUME NEW b \in Browsers, BeginChange(slot, b)
      PROVE  LET u == cookies[b].user IN
             /\ Accept(slot, "change", u, WithPassword(users[u], FALSE), b)
             /\ AcceptedOK(Req("change", u, WithPassword(users[u], FALSE), b))
  <2> DEFINE u   == cookies[b].user
             new == WithPassword(users[u], FALSE)
             r   == Req("change", u, new, b)
  <2>1. u \in Created /\ users[u] \in UserRows
    BY <1>5, CreatedHasRow DEF BeginChange, Honoured, TypeOK, OrNull
  <2>2. new \in UserRows
    BY <2>1, NewRows
  <2> HIDE DEF u, new
  <2>3. /\ r \in Requests /\ r.kind = "change" /\ r.user = u /\ r.seen = users[u]
        /\ r.new = new /\ r.browser = b /\ r.bumps = bumps[u]
    BY <1>2, <2>1, <2>2 DEF RequestKinds, Bumping, OrNull
  <2>4. AcceptedOK(r)
    <3>1. r.new = NewRow(r)
      BY <2>3 DEF NewRow, new
    <3> QED BY <2>3, <3>1 DEF AcceptedOK
  <2> QED BY <1>5, <2>4 DEF BeginChange, r, u, new
<1>6. ASSUME NEW u \in Users, BeginCommand(slot, u)
      PROVE  \E kind \in RequestKinds, new \in UserRows :
               Accept(slot, kind, u, new, Null) /\ AcceptedOK(Req(kind, u, new, Null))
  <2>1. u \in Created /\ users[u] \in UserRows
    BY <1>6, CreatedHasRow DEF BeginCommand
  <2>2. /\ WithPassword(users[u], FALSE) \in UserRows
        /\ WithPassword(users[u], TRUE) \in UserRows
        /\ Disabled(users[u]) \in UserRows /\ Enabled(users[u]) \in UserRows
        /\ Unlocked(users[u]) \in UserRows
        /\ \A role \in Roles : InRole(users[u], role) \in UserRows
    BY <2>1, NewRows
  <2>3. ASSUME NEW kind \in RequestKinds, NEW new \in UserRows,
               Accept(slot, kind, u, new, Null), NewRow(Req(kind, u, new, Null)) = new,
               kind = "disable" => ~IsLastAdmin(users[u]),
               kind = "role" => new.role = "admin" \/ ~IsLastAdmin(users[u])
        PROVE  Accept(slot, kind, u, new, Null) /\ AcceptedOK(Req(kind, u, new, Null))
    <3> DEFINE r == Req(kind, u, new, Null)
    <3>1. /\ r \in Requests /\ r.kind = kind /\ r.user = u /\ r.seen = users[u]
          /\ r.new = new /\ r.browser = Null /\ r.bumps = bumps[u]
      BY <1>2, <2>1 DEF OrNull
    <3> QED BY <2>3, <3>1 DEF AcceptedOK
  <2>r. ASSUME NEW kind \in RequestKinds, NEW new \in UserRows
        PROVE  LET r == Req(kind, u, new, Null) IN
               r.kind = kind /\ r.seen = users[u] /\ r.new = new
    BY <1>2, <2>1 DEF OrNull
  <2>4. CASE \E kind \in {"reset", "temporary"} : BeginReset(slot, u, kind)
    <3>1. ASSUME NEW kind \in {"reset", "temporary"}, NEW must \in BOOLEAN,
                 must = (kind = "temporary"), BeginReset(slot, u, kind)
          PROVE  /\ Accept(slot, kind, u, WithPassword(users[u], must), Null)
                 /\ NewRow(Req(kind, u, WithPassword(users[u], must), Null))
                      = WithPassword(users[u], must)
                 /\ kind \in RequestKinds /\ WithPassword(users[u], must) \in UserRows
      <4>1. /\ kind \in RequestKinds /\ WithPassword(users[u], must) \in UserRows
            /\ Accept(slot, kind, u, WithPassword(users[u], must), Null)
        BY <2>2, <3>1 DEF RequestKinds, Bumping, BeginReset
      <4>2. CASE kind = "reset" /\ must = FALSE
        BY <2>r, <4>1, <4>2 DEF NewRow
      <4>3. CASE kind = "temporary" /\ must = TRUE
        BY <2>r, <4>1, <4>3 DEF NewRow
      <4> QED BY <3>1, <4>1, <4>2, <4>3
    <3> QED BY <2>3, <2>4, <3>1
  <2>5. CASE BeginDisable(slot, u)
    <3>1. Disabled(users[u]) \in UserRows /\ "disable" \in RequestKinds
      BY <2>2 DEF RequestKinds, Bumping
    <3>2. NewRow(Req("disable", u, Disabled(users[u]), Null)) = Disabled(users[u])
      BY <2>r, <3>1 DEF NewRow
    <3> QED BY <2>3, <2>5, <3>1, <3>2 DEF BeginDisable
  <2>6. CASE \E role \in Roles : BeginSetRole(slot, u, role)
    <3> PICK role \in Roles : BeginSetRole(slot, u, role)
      BY <2>6
    <3>1. InRole(users[u], role).role = role
      BY <2>1 DEF InRole, Bump, UserRows
    <3>2. InRole(users[u], role) \in UserRows /\ "role" \in RequestKinds
      BY <2>2 DEF RequestKinds, Bumping
    <3>3. NewRow(Req("role", u, InRole(users[u], role), Null)) = InRole(users[u], role)
      BY <2>r, <3>1, <3>2 DEF NewRow
    <3> QED BY <2>3, <3>1, <3>2, <3>3 DEF BeginSetRole
  <2>7. CASE BeginEnable(slot, u)
    <3>1. Enabled(users[u]) \in UserRows /\ "enable" \in RequestKinds
      BY <2>2 DEF RequestKinds, Bumping
    <3>2. NewRow(Req("enable", u, Enabled(users[u]), Null)) = Enabled(users[u])
      BY <2>r, <3>1 DEF NewRow
    <3> QED BY <2>3, <2>7, <3>1, <3>2 DEF BeginEnable
  <2>8. CASE BeginUnlock(slot, u)
    <3>1. Unlocked(users[u]) \in UserRows /\ "unlock" \in RequestKinds
      BY <2>2 DEF RequestKinds, Bumping
    <3>2. NewRow(Req("unlock", u, Unlocked(users[u]), Null)) = Unlocked(users[u])
      BY <2>r, <3>1 DEF NewRow
    <3> QED BY <2>3, <2>8, <3>1, <3>2 DEF BeginUnlock
  <2> QED BY <1>6, <2>4, <2>5, <2>6, <2>7, <2>8 DEF BeginCommand
<1>7. CASE \E u \in SignedIn : BeginFailure(slot, u) \/ \E b \in Browsers : BeginSignIn(slot, u, b)
  BY <1>1, <1>3, <1>4, <1>7, AccountsConstantsOK
<1>8. CASE \E u \in Users : BeginCommand(slot, u)
  BY <1>1, <1>6, <1>8
<1>9. CASE \E b \in Browsers : BeginChange(slot, b)
  BY <1>1, <1>5, <1>9
<1> QED BY <1>7, <1>8, <1>9 DEF Begin

------------------------------------------------------------------------------
(* The type invariant *)

LEMMA InitTypeOK == Init => TypeOK
<1> SUFFICES ASSUME Init PROVE TypeOK
  OBVIOUS
<1>1. users \in [Users -> OrNull(UserRows)]
  BY DEF Init, OrNull
<1>2. /\ cookies \in [Browsers -> OrNull([user: Created, version: Nat, bumps: Nat])]
      /\ requests \in [Slots -> {Idle} \cup Requests]
  BY DEF Init, OrNull
<1>3. bumps \in [Users -> Nat] /\ tries \in [Users -> Nat]
  BY DEF Init
<1>4. temporary \subseteq Created /\ raced \subseteq Created /\ crowded \in BOOLEAN
  BY DEF Init
<1> QED BY <1>1, <1>2, <1>3, <1>4 DEF TypeOK, Requests

\* Requests after one slot has changed.
LEMMA OneSlotChanged ==
  ASSUME TypeOK, Created \subseteq Created', NEW slot \in Slots, NEW r,
         r = Idle \/ r \in Requests,
         requests' = [requests EXCEPT ![slot] = r]
  PROVE  requests' \in [Slots -> {Idle} \cup Requests']
<1>1. Requests \subseteq Requests'
  BY DEF Requests
<1>2. requests \in [Slots -> {Idle} \cup Requests]
  BY DEF TypeOK, Requests
<1> QED BY <1>1, <1>2

\* The commit of a request: what it writes on the row of its user.
LEMMA CommitWrites ==
  ASSUME TypeOK, NEW slot \in Slots, Commit(slot)
  PROVE  LET r == requests[slot] IN
         /\ r \in Requests /\ r.user \in Created
         /\ users[r.user] \in UserRows
         /\ users' = [users EXCEPT ![r.user] = Saved(r.seen, r.new, @)]
         /\ Saved(r.seen, r.new, users[r.user]) \in UserRows
         /\ Created' = Created
<1> DEFINE r == requests[slot]
<1>1. r \in Requests
  BY InRequests DEF Commit
<1>2. r.user \in Created /\ r.seen \in UserRows /\ r.new \in UserRows
  BY <1>1 DEF Requests
<1>3. r.user \in Users /\ users[r.user] \in UserRows
  BY <1>2, CreatedHasRow
<1>4. Saved(r.seen, r.new, users[r.user]) \in UserRows
  BY <1>2, <1>3, SavedIsRow
<1>5. users' = [users EXCEPT ![r.user] = Saved(r.seen, r.new, @)]
  BY DEF Commit
<1>6. Created' = Created
  BY <1>2, <1>3, <1>4, <1>5, AccountsConstantsOK DEF Created, TypeOK
<1> QED BY <1>1, <1>2, <1>3, <1>4, <1>5, <1>6

LEMMA CommitTypeOK ==
  ASSUME TypeOK, NEW slot \in Slots, Commit(slot)
  PROVE  TypeOK'
<1> DEFINE r == requests[slot]
<1>1. /\ r \in Requests /\ r.user \in Created /\ r.user \in Users
      /\ users' = [users EXCEPT ![r.user] = Saved(r.seen, r.new, @)]
      /\ Saved(r.seen, r.new, users[r.user]) \in UserRows
      /\ Created' = Created
  BY CommitWrites, CreatedHasRow
<1>2. users' \in [Users -> OrNull(UserRows)]
  BY <1>1 DEF TypeOK, OrNull
<1>3. bumps' \in [Users -> Nat]
  <2>1. bumps' = [bumps EXCEPT ![r.user] = IF r.kind \in Bumping THEN @ + 1 ELSE @]
    BY DEF Commit
  <2> QED BY <1>1, <2>1 DEF TypeOK
<1>4. tries' \in [Users -> Nat]
  <2>1. tries \in [Users -> Nat]
    BY DEF TypeOK
  <2>2. tries' = [tries EXCEPT ![r.user] =
          CASE r.kind = "failure" -> IF users'[r.user].locked = "future" THEN 0 ELSE @ + 1
            [] r.kind \in {"signin", "change", "reset", "temporary", "unlock"} -> 0
            [] OTHER -> @]
    BY DEF Commit, CountTries
  <2>3. CASE r.kind = "failure"
    <3>1. tries' = [tries EXCEPT ![r.user] =
            IF users'[r.user].locked = "future" THEN 0 ELSE @ + 1]
      BY <2>2, <2>3
    <3> QED BY <1>1, <2>1, <3>1
  <2>4. CASE r.kind \in {"signin", "change", "reset", "temporary", "unlock"}
    BY <1>1, <2>1, <2>2, <2>4
  <2>5. CASE r.kind \notin {"failure", "signin", "change", "reset", "temporary", "unlock"}
    BY <1>1, <2>1, <2>2, <2>5
  <2> QED BY <2>3, <2>4, <2>5
<1>5. cookies' \in [Browsers -> OrNull([user: Created, version: Nat, bumps: Nat])]
  <2>1. cookies \in [Browsers -> OrNull([user: Created, version: Nat, bumps: Nat])]
    BY DEF TypeOK
  <2>2. CASE r.browser = Null
    BY <2>1, <2>2 DEF Commit, StartSession
  <2>3. CASE r.browser # Null
    <3>1. users'[r.user].version \in Nat
      BY <1>1 DEF TypeOK, UserRows
    <3>2. r.bumps \in Nat /\ bumps'[r.user] \in Nat
      BY <1>1, <1>3 DEF Requests
    <3>3. PICK n \in Nat : cookies' = [cookies EXCEPT ![r.browser] =
                 [user |-> r.user, version |-> users'[r.user].version, bumps |-> n]]
      BY <2>3, <3>2 DEF Commit, StartSession
    <3> QED BY <1>1, <2>1, <3>1, <3>3 DEF OrNull
  <2> QED BY <2>2, <2>3
<1>6. /\ temporary' \subseteq Created /\ raced' \subseteq Created
      /\ crowded' \in BOOLEAN
  BY <1>1 DEF Commit, TypeOK
<1>7. requests' \in [Slots -> {Idle} \cup Requests']
  BY <1>1, OneSlotChanged DEF Commit, Done
<1> QED BY <1>1, <1>2, <1>3, <1>4, <1>5, <1>6, <1>7 DEF TypeOK, Requests

LEMMA NextTypeOK == TypeOK /\ [Next]_vars => TypeOK'
<1> SUFFICES ASSUME TypeOK, [Next]_vars PROVE TypeOK'
  OBVIOUS
<1> USE DEF ghosts
<1>1. CASE UNCHANGED vars
  BY <1>1 DEF TypeOK, vars, Created
<1>2. ASSUME NEW slot \in Slots, Begin(slot) PROVE TypeOK'
  <2>1. /\ UNCHANGED <<users, cookies, ghosts>>
        /\ \E r : r \in Requests /\ requests' = [requests EXCEPT ![slot] = r]
    BY <1>2, BeginAccepts DEF AcceptedOK
  <2>2. Created' = Created
    BY <2>1 DEF Created
  <2>3. requests' \in [Slots -> {Idle} \cup Requests']
    BY <2>1, <2>2, OneSlotChanged
  <2> QED BY <2>1, <2>2, <2>3 DEF TypeOK, Requests
<1>3. ASSUME NEW slot \in Slots, Commit(slot) PROVE TypeOK'
  BY <1>3, CommitTypeOK
<1>4. ASSUME NEW slot \in Slots, Abandon(slot) PROVE TypeOK'
  <2>1. /\ UNCHANGED <<users, cookies, ghosts>>
        /\ requests' = [requests EXCEPT ![slot] = Idle]
    BY <1>4 DEF Abandon, Done
  <2>2. Created' = Created
    BY <2>1 DEF Created
  <2>3. requests' \in [Slots -> {Idle} \cup Requests']
    BY <2>1, <2>2, OneSlotChanged
  <2> QED BY <2>1, <2>2, <2>3 DEF TypeOK, Requests
<1>5. ASSUME NEW new \in NewUsers, CreateUser(new) PROVE TypeOK'
  <2> DEFINE row == [role |-> new.role, active |-> TRUE, version |-> 1,
                     must |-> new.must, failed |-> 0, locked |-> "none"]
  <2>1. new.user \in Users /\ row \in UserRows
    BY AccountsConstantsOK DEF UserRows, Locks
  <2>2. users' = [users EXCEPT ![new.user] = row]
    BY <1>5 DEF CreateUser
  <2> HIDE DEF row
  <2>3. users' \in [Users -> OrNull(UserRows)]
    BY <2>1, <2>2 DEF TypeOK, OrNull
  <2>4. Created \subseteq Created' /\ new.user \in Created'
    BY <2>1, <2>2, AccountsConstantsOK DEF Created, TypeOK
  <2>5. requests' = requests /\ cookies' = cookies
    BY <1>5 DEF CreateUser
  <2>6. requests' \in [Slots -> {Idle} \cup Requests']
    <3>1. Requests \subseteq Requests'
      BY <2>4 DEF Requests
    <3> QED BY <2>5, <3>1 DEF TypeOK, Requests
  <2>7. cookies' \in [Browsers -> OrNull([user: Created', version: Nat, bumps: Nat])]
    BY <2>4, <2>5 DEF TypeOK, OrNull
  <2>8. /\ bumps' = bumps /\ tries' = tries /\ raced' = raced /\ crowded' = crowded
        /\ temporary' \subseteq temporary \cup {new.user}
    BY <1>5 DEF CreateUser
  <2> QED BY <2>3, <2>4, <2>6, <2>7, <2>8 DEF TypeOK, Requests
<1>6. ASSUME NEW b \in Browsers, EndSession(b) PROVE TypeOK'
  <2>1. /\ UNCHANGED <<users, requests, ghosts>>
        /\ cookies' = [cookies EXCEPT ![b] = Null]
    BY <1>6 DEF EndSession
  <2>2. Created' = Created
    BY <2>1 DEF Created
  <2> QED BY <2>1, <2>2 DEF TypeOK, OrNull
<1>7. ASSUME NEW u \in Users, LockExpires(u) PROVE TypeOK'
  <2>1. /\ UNCHANGED <<cookies, requests, ghosts>> /\ u \in Created
        /\ users' = [users EXCEPT ![u].locked = "past"]
    BY <1>7 DEF LockExpires
  <2>2. users[u] \in UserRows
    BY <2>1, CreatedHasRow
  <2>3. [users[u] EXCEPT !.locked = "past"] \in UserRows
    BY <2>2 DEF UserRows, Locks
  <2>4. users' \in [Users -> OrNull(UserRows)]
    BY <2>1, <2>3 DEF TypeOK, OrNull
  <2>5. Created' = Created
    BY <2>1, <2>3, AccountsConstantsOK DEF Created, TypeOK
  <2> QED BY <2>1, <2>4, <2>5 DEF TypeOK
<1> QED BY <1>1, <1>2, <1>3, <1>4, <1>5, <1>6, <1>7 DEF Next

\* Rows have their columns, cookies and requests name users that exist, in
\* every reachable state (models/user.py, services/user_service.py).
THEOREM AccountsTyped == Spec => []TypeOK
BY InitTypeOK, NextTypeOK, PTL DEF Spec

------------------------------------------------------------------------------
(* Sessions and temporary passwords *)

\* The columns each kind of request means to change.
LEMMA NewRowColumns ==
  ASSUME NEW r, r.seen \in UserRows, r.kind \in RequestKinds, r.new = NewRow(r)
  PROVE  /\ r.new.version = IF r.kind \in Bumping THEN r.seen.version + 1
                            ELSE r.seen.version
         /\ r.kind = "temporary" => r.new.must = TRUE
         /\ r.kind \in {"reset", "change"} => r.new.must = FALSE
         /\ r.kind \notin {"temporary", "reset", "change"} => r.new.must = r.seen.must
         /\ r.kind # "role" => r.new.role = r.seen.role
         /\ r.kind \notin {"disable", "enable"} => r.new.active = r.seen.active
         /\ r.kind = "enable" => r.new.active = TRUE
<1> USE DEF NewRow, RequestKinds, Bumping
<1>1. CASE r.kind \in {"signin", "unlock"}
  BY <1>1 DEF Unlocked, UserRows
<1>2. CASE r.kind = "failure"
  BY <1>2 DEF Failed, UserRows
<1>3. CASE r.kind \in {"change", "reset", "temporary"}
  <2> PICK must \in BOOLEAN : /\ r.new = WithPassword(r.seen, must)
                              /\ must = (r.kind = "temporary")
    BY <1>3
  <2>1. r.new = [[Unlocked(r.seen) EXCEPT !.version = @ + 1] EXCEPT !.must = must]
    BY DEF WithPassword, Bump
  <2>2. Unlocked(r.seen) \in UserRows
    BY NewRows
  <2>3. /\ r.new.version = Unlocked(r.seen).version + 1 /\ r.new.must = must
        /\ r.new.role = Unlocked(r.seen).role /\ r.new.active = Unlocked(r.seen).active
    BY <2>1, <2>2 DEF UserRows
  <2>4. /\ Unlocked(r.seen).version = r.seen.version
        /\ Unlocked(r.seen).role = r.seen.role
        /\ Unlocked(r.seen).active = r.seen.active
    BY DEF Unlocked, UserRows
  <2> QED BY <1>3, <2>3, <2>4
<1>4. CASE r.kind = "disable"
  BY <1>4 DEF Disabled, Bump, UserRows
<1>5. CASE r.kind = "enable"
  BY <1>5 DEF Enabled, UserRows
<1>6. CASE r.kind = "role"
  BY <1>6 DEF InRole, Bump, UserRows
<1> QED BY <1>1, <1>2, <1>3, <1>4, <1>5, <1>6

\* What a request in flight will write was decided from the row it read.
Decided ==
  \A slot \in Slots : LET r == requests[slot] IN
    r # Idle => r.new = NewRow(r) /\ (r.browser # Null => r.kind \in {"signin", "change"})

\* For a user on whom no two of them overlapped, what a bump in flight has read
\* of version and flag is still there, and no bump came after a sign-in in
\* flight found the password right.
InStep ==
  \A slot \in Slots : LET r == requests[slot] IN
    r # Idle /\ r.user \notin raced =>
      /\ r.kind \in Bumping => /\ r.seen.version = users[r.user].version
                               /\ r.seen.must = users[r.user].must
      /\ r.kind = "signin" => r.bumps = bumps[r.user]

\* Versions count bumps, and a flag is set while a password is temporary.
Counted ==
  /\ \A u \in Created \ raced : /\ users[u].version = bumps[u] + 1
                                /\ users[u].must <=> u \in temporary
  /\ \A u \in Users \ Created : bumps[u] = 0

CookiesCounted ==
  \A b \in Browsers :
    cookies[b] # Null /\ cookies[b].user \notin raced =>
      cookies[b].version = cookies[b].bumps + 1

SInv == TypeOK /\ Decided /\ InStep /\ Counted /\ CookiesCounted

LEMMA InitSInv == Init => SInv
<1> SUFFICES ASSUME Init PROVE SInv
  OBVIOUS
<1>1. TypeOK
  BY InitTypeOK
<1>2. Decided /\ InStep
  BY DEF Init, Decided, InStep
<1>3. Counted /\ CookiesCounted
  BY DEF Init, Counted, CookiesCounted, Created
<1> QED BY <1>1, <1>2, <1>3 DEF SInv

\* What a commit does to the columns and the counts the invariant relates.
LEMMA CommitColumns ==
  ASSUME SInv, NEW slot \in Slots, Commit(slot)
  PROVE  LET r == requests[slot]  u == r.user IN
         /\ u \in Created /\ u \in Users /\ Created' = Created
         /\ raced \subseteq raced'
         /\ \A v \in Users \ {u} : users'[v] = users[v] /\ bumps'[v] = bumps[v]
         /\ \A v \in Users \ {u} : v \in temporary' <=> v \in temporary
         /\ r.kind \notin Bumping =>
              /\ users'[u].version = users[u].version
              /\ users'[u].must = users[u].must
              /\ bumps'[u] = bumps[u] /\ temporary' = temporary
         /\ r.kind \in Bumping /\ u \notin raced =>
              /\ users'[u].version = users[u].version + 1
              /\ bumps'[u] = bumps[u] + 1
              /\ r.kind = "temporary" => users'[u].must = TRUE /\ u \in temporary'
              /\ r.kind \in {"reset", "change"} =>
                   users'[u].must = FALSE /\ u \notin temporary'
              /\ r.kind \in {"disable", "role"} =>
                   users'[u].must = users[u].must /\ temporary' = temporary
<1> DEFINE r == requests[slot]
           u == r.user
<1>1. /\ r \in Requests /\ u \in Created /\ u \in Users /\ Created' = Created
      /\ users[u] \in UserRows /\ r.seen \in UserRows /\ r.kind \in RequestKinds
      /\ users' = [users EXCEPT ![u] = Saved(r.seen, r.new, @)]
  BY CommitWrites, CreatedHasRow DEF SInv, Requests
<1>2. r # Idle /\ r.new = NewRow(r)
  BY DEF SInv, Decided, Commit
<1>3. /\ bumps' = [bumps EXCEPT ![u] = IF r.kind \in Bumping THEN @ + 1 ELSE @]
      /\ temporary' = CASE r.kind = "temporary"           -> temporary \cup {u}
                        [] r.kind \in {"reset", "change"} -> temporary \ {u}
                        [] OTHER                          -> temporary
      /\ raced \subseteq raced'
  BY DEF Commit
<1>4. /\ users \in [Users -> OrNull(UserRows)] /\ bumps \in [Users -> Nat]
  BY DEF SInv, TypeOK
<1>5. /\ users'[u].version = Save(r.seen.version, r.new.version, users[u].version)
      /\ users'[u].must = Save(r.seen.must, r.new.must, users[u].must)
      /\ \A v \in Users \ {u} : users'[v] = users[v] /\ bumps'[v] = bumps[v]
      /\ bumps'[u] = IF r.kind \in Bumping THEN bumps[u] + 1 ELSE bumps[u]
  BY <1>1, <1>3, <1>4 DEF Saved
<1>6. \A v \in Users \ {u} : v \in temporary' <=> v \in temporary
  BY <1>3
<1>7. ASSUME r.kind \notin Bumping
      PROVE  /\ users'[u].version = users[u].version
             /\ users'[u].must = users[u].must
             /\ bumps'[u] = bumps[u] /\ temporary' = temporary
  <2>1. r.new.version = r.seen.version /\ r.new.must = r.seen.must
    BY <1>1, <1>2, <1>7, NewRowColumns DEF Bumping
  <2> QED BY <1>3, <1>5, <1>7, <2>1 DEF Save, Bumping
<1>8. ASSUME r.kind \in Bumping, u \notin raced
      PROVE  /\ users'[u].version = users[u].version + 1
             /\ bumps'[u] = bumps[u] + 1
             /\ r.kind = "temporary" => users'[u].must = TRUE /\ u \in temporary'
             /\ r.kind \in {"reset", "change"} =>
                  users'[u].must = FALSE /\ u \notin temporary'
             /\ r.kind \in {"disable", "role"} =>
                  users'[u].must = users[u].must /\ temporary' = temporary
  <2>1. r.seen.version = users[u].version /\ r.seen.must = users[u].must
    BY <1>2, <1>8 DEF SInv, InStep
  <2>2. r.new.version = r.seen.version + 1 /\ r.seen.version \in Nat
    BY <1>1, <1>2, <1>8, NewRowColumns DEF UserRows
  <2>3. /\ users'[u].version = users[u].version + 1 /\ bumps'[u] = bumps[u] + 1
        /\ users'[u].must = r.new.must
    BY <1>5, <1>8, <2>1, <2>2 DEF Save
  <2>4. /\ r.kind = "temporary" => r.new.must = TRUE
        /\ r.kind \in {"reset", "change"} => r.new.must = FALSE
        /\ r.kind \in {"disable", "role"} => r.new.must = r.seen.must
    BY <1>1, <1>2, NewRowColumns
  <2> QED BY <1>3, <2>1, <2>3, <2>4
<1> QED BY <1>1, <1>3, <1>5, <1>6, <1>7, <1>8

LEMMA CommitSInv ==
  ASSUME SInv, NEW slot \in Slots, Commit(slot)
  PROVE  SInv'
<1> DEFINE r == requests[slot]
           u == r.user
<1>1. TypeOK'
  BY CommitTypeOK DEF SInv
<1>2. /\ r \in Requests /\ r # Idle
      /\ \A s \in Slots \ {slot} : requests'[s] = requests[s]
      /\ requests'[slot] = Idle
  BY CommitWrites DEF SInv, TypeOK, Commit, Done
<1>3. Decided'
  BY <1>2 DEF SInv, Decided
<1>4. InStep'
  <2> SUFFICES ASSUME NEW s \in Slots \ {slot}, requests[s] # Idle,
                      requests[s].user \notin raced'
               PROVE  /\ requests[s].kind \in Bumping =>
                           /\ requests[s].seen.version = users'[requests[s].user].version
                           /\ requests[s].seen.must = users'[requests[s].user].must
                      /\ requests[s].kind = "signin" =>
                           requests[s].bumps = bumps'[requests[s].user]
    BY <1>2 DEF InStep
  <2> DEFINE o == requests[s]
  <2>1. o.user \in Users /\ o.user \notin raced
    BY CommitColumns, InRequests, CreatedHasRow DEF SInv, Requests
  <2>2. /\ o.kind \in Bumping => /\ o.seen.version = users[o.user].version
                                /\ o.seen.must = users[o.user].must
        /\ o.kind = "signin" => o.bumps = bumps[o.user]
    BY <2>1 DEF SInv, InStep
  <2>3. CASE o.user # u
    BY <2>1, <2>2, <2>3, CommitColumns
  <2>4. CASE o.user = u /\ r.kind \notin Bumping
    BY <2>1, <2>2, <2>4, CommitColumns
  <2>5. CASE o.user = u /\ r.kind \in Bumping
    <3>1. o.kind \notin Bumping \cup {"signin"}
      <4> SUFFICES ASSUME o.kind \in Bumping \cup {"signin"} PROVE FALSE
        OBVIOUS
      <4>1. InFlight(u, slot, Bumping \cup {"signin"})
        BY <2>5 DEF InFlight
      <4>2. u \in raced'
        BY <2>5, <4>1 DEF Commit
      <4> QED BY <2>5, <4>2
    <3> QED BY <3>1
  <2> QED BY <2>3, <2>4, <2>5
<1>5. Counted'
  <2>1. ASSUME NEW v \in Created', v \notin raced'
        PROVE  users'[v].version = bumps'[v] + 1 /\ (users'[v].must <=> v \in temporary')
    <3>1. /\ v \in Created /\ v \in Users /\ v \notin raced
          /\ users[v].version = bumps[v] + 1 /\ (users[v].must <=> v \in temporary)
          /\ bumps[v] \in Nat
      BY <2>1, CommitColumns, CreatedHasRow DEF SInv, Counted, TypeOK
    <3>2. CASE v # u
      BY <3>1, <3>2, CommitColumns
    <3>3. CASE v = u /\ r.kind \notin Bumping
      BY <3>1, <3>3, CommitColumns
    <3>4. CASE v = u /\ r.kind \in Bumping
      <4>1. r.kind \in {"temporary", "reset", "change", "disable", "role"}
        BY <3>4 DEF Bumping
      <4> QED BY <3>1, <3>4, <4>1, CommitColumns
    <3> QED BY <3>2, <3>3, <3>4
  <2>2. ASSUME NEW v \in Users \ Created' PROVE bumps'[v] = 0
    BY CommitColumns DEF SInv, Counted
  <2> QED BY <2>1, <2>2 DEF Counted
<1>6. CookiesCounted'
  <2> SUFFICES ASSUME NEW b \in Browsers, cookies'[b] # Null,
                      cookies'[b].user \notin raced'
               PROVE  cookies'[b].version = cookies'[b].bumps + 1
    BY DEF CookiesCounted
  <2>1. raced \subseteq raced'
    BY CommitColumns
  <2>2. CASE cookies'[b] = cookies[b]
    BY <2>1, <2>2 DEF SInv, CookiesCounted
  <2>3. CASE cookies'[b] # cookies[b]
    <3>1. /\ r.browser = b /\ b # Null
          /\ cookies'[b] = [user |-> u, version |-> users'[u].version,
                bumps |-> IF r.kind = "signin" THEN r.bumps ELSE bumps'[u]]
      BY <2>3, AccountsConstantsOK DEF Commit, StartSession, SInv, TypeOK
    <3>2. r.kind \in {"signin", "change"}
      BY <1>2, <3>1 DEF SInv, Decided
    <3>3. u \in Created /\ u \notin raced' /\ u \notin raced /\ Created' = Created
      <4>1. cookies'[b].user = u
        BY <3>1
      <4>2. u \in Created /\ Created' = Created
        BY CommitColumns
      <4> QED BY <2>1, <4>1, <4>2
    <3>4. users'[u].version = bumps'[u] + 1
      BY <1>5, <3>3 DEF Counted
    <3>5. r.kind = "signin" => r.bumps = bumps'[u]
      BY <1>2, <3>3, CommitColumns DEF SInv, InStep, Bumping
    <3> QED BY <3>1, <3>2, <3>4, <3>5
  <2> QED BY <2>2, <2>3
<1> QED BY <1>1, <1>3, <1>4, <1>5, <1>6 DEF SInv

LEMMA NextSInv == SInv /\ [Next]_vars => SInv'
<1> SUFFICES ASSUME SInv, [Next]_vars PROVE SInv'
  OBVIOUS
<1>0. TypeOK'
  BY NextTypeOK DEF SInv
<1> USE DEF ghosts
<1>1. CASE UNCHANGED vars
  BY <1>0, <1>1 DEF SInv, Decided, InStep, Counted, CookiesCounted, vars, Created
<1>2. ASSUME NEW slot \in Slots, Begin(slot) PROVE SInv'
  <2> PICK r : /\ AcceptedOK(r) /\ requests' = [requests EXCEPT ![slot] = r]
               /\ UNCHANGED <<users, cookies, ghosts>>
    BY <1>2, BeginAccepts DEF SInv
  <2>1. /\ \A s \in Slots \ {slot} : requests'[s] = requests[s]
        /\ requests'[slot] = r
    BY DEF SInv, TypeOK
  <2>2. Decided'
    BY <2>1 DEF SInv, Decided, AcceptedOK
  <2>3. InStep'
    BY <2>1 DEF SInv, InStep, AcceptedOK
  <2>4. Counted' /\ CookiesCounted'
    BY DEF SInv, Counted, CookiesCounted, Created
  <2> QED BY <1>0, <2>2, <2>3, <2>4 DEF SInv
<1>3. ASSUME NEW slot \in Slots, Commit(slot) PROVE SInv'
  BY <1>3, CommitSInv
<1>4. ASSUME NEW slot \in Slots, Abandon(slot) PROVE SInv'
  <2>1. /\ UNCHANGED <<users, cookies, ghosts>>
        /\ \A s \in Slots \ {slot} : requests'[s] = requests[s]
        /\ requests'[slot] = Idle
    BY <1>4 DEF Abandon, Done, SInv, TypeOK
  <2>2. Decided' /\ InStep'
    BY <2>1 DEF SInv, Decided, InStep
  <2>3. Counted' /\ CookiesCounted'
    BY <2>1 DEF SInv, Counted, CookiesCounted, Created
  <2> QED BY <1>0, <2>2, <2>3 DEF SInv
<1>5. ASSUME NEW new \in NewUsers, CreateUser(new) PROVE SInv'
  <2> DEFINE row == [role |-> new.role, active |-> TRUE, version |-> 1,
                     must |-> new.must, failed |-> 0, locked |-> "none"]
  <2>1. /\ new.user \in Users /\ new.user \notin Created /\ new.must \in BOOLEAN
        /\ users' = [users EXCEPT ![new.user] = row]
        /\ UNCHANGED <<cookies, requests, bumps, tries, raced, crowded>>
    BY <1>5, AccountsConstantsOK DEF CreateUser, Created
  <2>2. /\ row.version = 1 /\ row.must = new.must
        /\ row \in UserRows
    BY <2>1, AccountsConstantsOK DEF UserRows, Locks
  <2>3. temporary' = IF new.must THEN temporary \cup {new.user} ELSE temporary
    BY <1>5 DEF CreateUser
  <2> HIDE DEF row
  <2>4. Created' = Created \cup {new.user}
    BY <2>1, <2>2, AccountsConstantsOK DEF Created, SInv, TypeOK
  <2>5. /\ \A v \in Created : users'[v] = users[v]
        /\ users'[new.user] = row
    BY <2>1 DEF SInv, TypeOK, Created
  <2>6. Decided'
    BY <2>1 DEF SInv, Decided
  <2>7. InStep'
    <3>1. \A slot \in Slots : requests[slot] # Idle => requests[slot].user \in Created
      BY InRequests DEF SInv, Requests
    <3> QED BY <2>1, <2>5, <3>1 DEF SInv, InStep
  <2>8. Counted'
    <3>1. new.user \notin temporary /\ bumps[new.user] = 0
      BY <2>1 DEF SInv, TypeOK, Counted
    <3>2. /\ users'[new.user].version = bumps'[new.user] + 1
          /\ users'[new.user].must <=> new.user \in temporary'
      BY <2>1, <2>2, <2>3, <2>5, <3>1
    <3>3. ASSUME NEW v \in Created \ raced
          PROVE  /\ users'[v].version = bumps'[v] + 1
                 /\ users'[v].must <=> v \in temporary'
      BY <2>1, <2>3, <2>5, <3>3 DEF SInv, Counted
    <3> QED BY <2>1, <2>4, <3>2, <3>3 DEF SInv, Counted
  <2>9. CookiesCounted'
    BY <2>1 DEF SInv, CookiesCounted
  <2> QED BY <1>0, <2>6, <2>7, <2>8, <2>9 DEF SInv
<1>6. ASSUME NEW b \in Browsers, EndSession(b) PROVE SInv'
  <2>1. /\ UNCHANGED <<users, requests, ghosts>>
        /\ cookies' = [cookies EXCEPT ![b] = Null]
    BY <1>6 DEF EndSession
  <2>2. Decided' /\ InStep' /\ Counted'
    BY <2>1 DEF SInv, Decided, InStep, Counted, Created
  <2>3. CookiesCounted'
    BY <2>1 DEF SInv, CookiesCounted, TypeOK
  <2> QED BY <1>0, <2>2, <2>3 DEF SInv
<1>7. ASSUME NEW u \in Users, LockExpires(u) PROVE SInv'
  <2>1. /\ UNCHANGED <<cookies, requests, ghosts>> /\ u \in Created
        /\ users' = [users EXCEPT ![u].locked = "past"]
    BY <1>7 DEF LockExpires
  <2>2. users[u] \in UserRows
    BY <2>1, CreatedHasRow DEF SInv
  <2>3. [users[u] EXCEPT !.locked = "past"] \in UserRows
    BY <2>2 DEF UserRows, Locks
  <2>4. Created' = Created
    BY <2>1, <2>3, AccountsConstantsOK DEF Created, SInv, TypeOK
  <2>5. \A v \in Users : /\ users'[v].version = users[v].version
                         /\ users'[v].must = users[v].must
    BY <2>1, <2>2 DEF SInv, TypeOK, UserRows
  <2>6. Decided'
    BY <2>1 DEF SInv, Decided
  <2>7. InStep'
    <3>1. \A slot \in Slots : requests[slot] # Idle => requests[slot].user \in Users
      BY InRequests, CreatedHasRow DEF SInv, Requests
    <3> QED BY <2>1, <2>5, <3>1 DEF SInv, InStep
  <2>8. Counted'
    BY <2>1, <2>4, <2>5, CreatedHasRow DEF SInv, Counted
  <2>9. CookiesCounted'
    BY <2>1 DEF SInv, CookiesCounted
  <2> QED BY <1>0, <2>6, <2>7, <2>8, <2>9 DEF SInv
<1> QED BY <1>1, <1>2, <1>3, <1>4, <1>5, <1>6, <1>7 DEF Next

\* The password of an honoured session was found right after the last reset,
\* disabling or change of role, unless two of them, or one and a sign-in,
\* overlapped (session_version, _user_from_session).
THEOREM SessionsEnd == Spec => []BumpsEndSessions
<1>1. SInv => BumpsEndSessions
  <2> SUFFICES ASSUME SInv, NEW b \in Browsers, Honoured(b), cookies[b].user \notin raced
               PROVE  cookies[b].bumps = bumps[cookies[b].user]
    BY DEF BumpsEndSessions
  <2> DEFINE u == cookies[b].user
  <2>1. u \in Created /\ cookies[b].bumps \in Nat
    BY DEF SInv, TypeOK, OrNull, Honoured
  <2>2. bumps[u] \in Nat
    BY <2>1, CreatedHasRow DEF SInv, TypeOK
  <2>3. cookies[b].version = cookies[b].bumps + 1
    BY DEF SInv, CookiesCounted, Honoured
  <2>4. users[u].version = bumps[u] + 1
    BY <2>1 DEF SInv, Counted
  <2>5. users[u].version = cookies[b].version
    BY DEF Honoured
  <2> QED BY <2>1, <2>2, <2>3, <2>4, <2>5
<1> QED BY <1>1, InitSInv, NextSInv, PTL DEF Spec

\* A user has to change the password exactly while it is a temporary one,
\* unless two changes of the account overlapped (set_password).
THEOREM TemporaryPasswordsChange == Spec => []TemporaryMustChange
<1>1. SInv => TemporaryMustChange
  BY DEF SInv, Counted, TemporaryMustChange
<1> QED BY <1>1, InitSInv, NextSInv, PTL DEF Spec

------------------------------------------------------------------------------
(* The last administrator *)

Administers(row) == row.role = "admin" /\ row.active

\* As long as no two commands about administrators crossed, one that may take
\* an administrator away has read what is still there, and if it takes one
\* away it leaves another.
AsRead ==
  ~crowded =>
    \A slot \in Slots : LET r == requests[slot] IN
      r # Idle /\ r.kind \in Removing =>
        /\ r.seen.role = users[r.user].role /\ r.seen.active = users[r.user].active
        /\ Administers(r.seen) /\ ~Administers(r.new) =>
             \E v \in Created : v # r.user /\ Administers(users[v])

AInv == TypeOK /\ Decided /\ AsRead

\* An administrator that is not the last one is one of two.
LEMMA AnotherAdmin ==
  ASSUME TypeOK, NEW u \in Created, Administers(users[u]), ~IsLastAdmin(users[u])
  PROVE  \E v \in Created : v # u /\ Administers(users[v])
<1> SUFFICES ASSUME \A v \in Created : Administers(users[v]) => v = u
             PROVE  Cardinality(ActiveAdmins) <= 1
  BY DEF IsLastAdmin, Administers
<1>1. ActiveAdmins = {u}
  BY DEF ActiveAdmins, Administers
<1> QED BY <1>1, FS_Singleton

\* Who is an administrator after a commit: roles and active change by commands
\* about them alone, and by nothing else than what these decided.
LEMMA CommitAdmins ==
  ASSUME AInv, NEW slot \in Slots, Commit(slot)
  PROVE  LET r == requests[slot]  u == r.user IN
         /\ r \in Requests /\ r # Idle /\ u \in Created /\ Created' = Created
         /\ \A v \in Created \ {u} : users'[v] = users[v]
         /\ r.kind # "role" => users'[u].role = users[u].role
         /\ r.kind \notin {"disable", "enable"} => users'[u].active = users[u].active
         /\ r.kind = "enable" /\ users[u].active => users'[u].active
         /\ r.kind \in Removing /\ ~crowded => /\ users'[u].role = r.new.role
                                               /\ users'[u].active = r.new.active
<1> DEFINE r == requests[slot]
           u == r.user
<1>1. /\ r \in Requests /\ u \in Created /\ u \in Users /\ Created' = Created
      /\ users[u] \in UserRows /\ r.seen \in UserRows /\ r.kind \in RequestKinds
      /\ users' = [users EXCEPT ![u] = Saved(r.seen, r.new, @)]
  BY CommitWrites, CreatedHasRow DEF AInv, Requests
<1>2. r # Idle /\ r.new = NewRow(r)
  BY DEF AInv, Decided, Commit
<1>3. /\ users'[u].role = Save(r.seen.role, r.new.role, users[u].role)
      /\ users'[u].active = Save(r.seen.active, r.new.active, users[u].active)
      /\ \A v \in Created \ {u} : users'[v] = users[v]
  BY <1>1 DEF Saved, AInv, TypeOK
<1>4. /\ r.kind # "role" => r.new.role = r.seen.role
      /\ r.kind \notin {"disable", "enable"} => r.new.active = r.seen.active
      /\ r.kind = "enable" => r.new.active = TRUE
  BY <1>1, <1>2, NewRowColumns
<1>5. r.kind \in Removing /\ ~crowded =>
        r.seen.role = users[u].role /\ r.seen.active = users[u].active
  BY <1>2 DEF AInv, AsRead
<1>6. r.kind # "role" => users'[u].role = users[u].role
  BY <1>3, <1>4 DEF Save
<1>7. r.kind \notin {"disable", "enable"} => users'[u].active = users[u].active
  BY <1>3, <1>4 DEF Save
<1>8. r.kind = "enable" /\ users[u].active => users'[u].active
  BY <1>3, <1>4 DEF Save
<1>9. r.kind \in Removing /\ ~crowded =>
        users'[u].role = r.new.role /\ users'[u].active = r.new.active
  BY <1>3, <1>5 DEF Save
<1> QED BY <1>1, <1>2, <1>3, <1>6, <1>7, <1>8, <1>9

LEMMA InitAInv == Init => AInv
<1> SUFFICES ASSUME Init PROVE AInv
  OBVIOUS
<1>1. TypeOK
  BY InitTypeOK
<1>2. Decided /\ AsRead
  BY DEF Init, Decided, AsRead
<1> QED BY <1>1, <1>2 DEF AInv

LEMMA CommitAInv ==
  ASSUME AInv, NEW slot \in Slots, Commit(slot)
  PROVE  Decided' /\ AsRead'
<1> DEFINE r == requests[slot]
           u == r.user
<1>1. /\ \A s \in Slots \ {slot} : requests'[s] = requests[s]
      /\ requests'[slot] = Idle
  BY DEF AInv, TypeOK, Commit, Done
<1>2. Decided'
  BY <1>1 DEF AInv, Decided
<1>3. AsRead'
  <2> SUFFICES ASSUME ~crowded', NEW s \in Slots \ {slot}, requests[s] # Idle,
                      requests[s].kind \in Removing
               PROVE  LET o == requests[s] IN
                 /\ o.seen.role = users'[o.user].role
                 /\ o.seen.active = users'[o.user].active
                 /\ Administers(o.seen) /\ ~Administers(o.new) =>
                      \E v \in Created' : v # o.user /\ Administers(users'[v])
    BY <1>1 DEF AsRead
  <2> DEFINE o == requests[s]
  <2>1. o.user \in Created /\ o.user \in Users /\ ~crowded
    BY InRequests, CreatedHasRow DEF AInv, Requests, Commit
  <2>2. r.kind \notin Appointing
    <3> SUFFICES ASSUME r.kind \in Appointing PROVE FALSE
      OBVIOUS
    <3>1. InFlight(o.user, slot, Removing)
      BY DEF InFlight
    <3> QED BY <2>1, <3>1 DEF Commit
  <2>3. /\ \A v \in Created : /\ users'[v].role = users[v].role
                             /\ users'[v].active = users[v].active
        /\ Created' = Created
    BY <2>2, CommitAdmins DEF Appointing, Removing
  <2>4. \A v \in Created : Administers(users[v]) => Administers(users'[v])
    BY <2>3 DEF Administers
  <2> QED BY <2>1, <2>3, <2>4 DEF AInv, AsRead
<1> QED BY <1>2, <1>3

\* Steps that leave requests and the rows of the users there are as they are.
LEMMA SameAdmins ==
  ASSUME AInv, Created \subseteq Created', crowded' = crowded,
         \A v \in Created : /\ users'[v].role = users[v].role
                            /\ users'[v].active = users[v].active,
         NEW slots \in SUBSET Slots,
         \A s \in slots : requests'[s] = requests[s],
         \A s \in Slots \ slots : requests'[s] = Idle
  PROVE  Decided' /\ AsRead'
<1>1. Decided'
  BY DEF AInv, Decided
<1>2. \A s \in Slots : requests[s] # Idle => requests[s].user \in Created
  BY InRequests DEF AInv, Requests
<1>3. \A v \in Created : Administers(users[v]) => Administers(users'[v])
  BY DEF Administers
<1>4. AsRead'
  <2> SUFFICES ASSUME ~crowded, NEW s \in slots, requests[s] # Idle,
                      requests[s].kind \in Removing
               PROVE  LET o == requests[s] IN
                 /\ o.seen.role = users'[o.user].role
                 /\ o.seen.active = users'[o.user].active
                 /\ Administers(o.seen) /\ ~Administers(o.new) =>
                      \E v \in Created' : v # o.user /\ Administers(users'[v])
    BY DEF AsRead
  <2> QED BY <1>2, <1>3 DEF AInv, AsRead
<1> QED BY <1>1, <1>4

LEMMA NextAInv == AInv /\ [Next]_vars => AInv'
<1> SUFFICES ASSUME AInv, [Next]_vars PROVE AInv'
  OBVIOUS
<1>0. TypeOK'
  BY NextTypeOK DEF AInv
<1> SUFFICES Decided' /\ AsRead'
  BY <1>0 DEF AInv
<1> USE DEF ghosts
<1>1. CASE UNCHANGED vars
  BY <1>1 DEF AInv, Decided, AsRead, vars, Created
<1>2. ASSUME NEW slot \in Slots, Begin(slot) PROVE Decided' /\ AsRead'
  <2> PICK r : /\ AcceptedOK(r) /\ requests' = [requests EXCEPT ![slot] = r]
               /\ UNCHANGED <<users, cookies, ghosts>>
    BY <1>2, BeginAccepts DEF AInv
  <2>1. /\ \A s \in Slots \ {slot} : requests'[s] = requests[s]
        /\ requests'[slot] = r /\ Created' = Created
    BY DEF AInv, TypeOK, Created
  <2>2. Decided'
    BY <2>1 DEF AInv, Decided, AcceptedOK
  <2>3. ASSUME r.kind \in Removing
        PROVE  /\ r.seen.role = users[r.user].role /\ r.seen.active = users[r.user].active
               /\ Administers(r.seen) /\ ~Administers(r.new) =>
                    \E v \in Created : v # r.user /\ Administers(users[v])
    <3>1. r.user \in Created /\ r.seen = users[r.user] /\ r.seen \in UserRows
      BY DEF AcceptedOK, Requests
    <3>2. CASE IsLastAdmin(r.seen)
      <4>1. r.kind = "role" /\ r.new.role = "admin"
        BY <2>3, <3>2 DEF AcceptedOK, Removing
      <4>2. r.new.active = r.seen.active
        BY <3>1, <4>1, NewRowColumns DEF AcceptedOK, RequestKinds, Bumping
      <4> QED BY <3>1, <4>1, <4>2 DEF Administers
    <3>3. CASE ~IsLastAdmin(r.seen)
      BY <3>1, <3>3, AnotherAdmin DEF AInv
    <3> QED BY <3>2, <3>3
  <2>4. AsRead'
    BY <2>1, <2>3 DEF AInv, AsRead
  <2> QED BY <2>2, <2>4
<1>3. ASSUME NEW slot \in Slots, Commit(slot) PROVE Decided' /\ AsRead'
  BY <1>3, CommitAInv
<1>4. ASSUME NEW slot \in Slots, Abandon(slot) PROVE Decided' /\ AsRead'
  <2>1. /\ UNCHANGED <<users, cookies, ghosts>>
        /\ \A s \in Slots \ {slot} : requests'[s] = requests[s]
        /\ requests'[slot] = Idle /\ Created' = Created
    BY <1>4 DEF Abandon, Done, AInv, TypeOK, Created
  <2> QED BY <2>1, SameAdmins
<1>5. ASSUME NEW new \in NewUsers, CreateUser(new) PROVE Decided' /\ AsRead'
  <2>1. /\ new.user \notin Created
        /\ \A v \in Created : users'[v] = users[v]
        /\ UNCHANGED <<requests, crowded>>
    BY <1>5 DEF CreateUser, Created, AInv, TypeOK
  <2>2. Created \subseteq Created'
    BY <2>1 DEF Created
  <2> QED BY <2>1, <2>2, SameAdmins
<1>6. ASSUME NEW b \in Browsers, EndSession(b) PROVE Decided' /\ AsRead'
  <2>1. UNCHANGED <<users, requests, ghosts>> /\ Created' = Created
    BY <1>6 DEF EndSession, Created
  <2> QED BY <2>1, SameAdmins
<1>7. ASSUME NEW u \in Users, LockExpires(u) PROVE Decided' /\ AsRead'
  <2>1. /\ UNCHANGED <<cookies, requests, ghosts>> /\ u \in Created
        /\ users' = [users EXCEPT ![u].locked = "past"]
    BY <1>7 DEF LockExpires
  <2>2. users[u] \in UserRows
    BY <2>1, CreatedHasRow DEF AInv
  <2>3. [users[u] EXCEPT !.locked = "past"] \in UserRows
    BY <2>2 DEF UserRows, Locks
  <2>4. Created' = Created
    BY <2>1, <2>3, AccountsConstantsOK DEF Created, AInv, TypeOK
  <2>5. \A v \in Created : /\ users'[v].role = users[v].role
                           /\ users'[v].active = users[v].active
    BY <2>1, <2>2, CreatedHasRow DEF AInv, TypeOK, UserRows
  <2> QED BY <2>1, <2>4, <2>5, SameAdmins
<1> QED BY <1>1, <1>2, <1>3, <1>4, <1>5, <1>6, <1>7 DEF Next

\* A commit leaves an administrator if there was one.
LEMMA CommitKeepsAdmin ==
  ASSUME AInv, NEW slot \in Slots, Commit(slot), Administered, ~crowded'
  PROVE  Administered'
<1> DEFINE r == requests[slot]
           u == r.user
<1>1. ~crowded /\ Created' = Created
  BY CommitAdmins DEF Commit
<1>2. PICK w \in Created : Administers(users[w])
  BY DEF Administered, Administers
<1>3. CASE w # u
  BY <1>1, <1>2, <1>3, CommitAdmins DEF Administered, Administers
<1>4. CASE w = u /\ r.kind \notin Removing
  <2>1. users'[u].role = users[u].role /\ (users[u].active => users'[u].active)
    BY <1>4, CommitAdmins DEF Removing
  <2> QED BY <1>1, <1>2, <1>4, <2>1 DEF Administered, Administers
<1>5. CASE w = u /\ r.kind \in Removing
  <2>1. /\ users'[u].role = r.new.role /\ users'[u].active = r.new.active
        /\ r # Idle /\ u \in Created
    BY <1>1, <1>5, CommitAdmins
  <2>2. r.seen.role = users[u].role /\ r.seen.active = users[u].active
    BY <1>1, <1>5, <2>1 DEF AInv, AsRead
  <2>3. CASE Administers(r.new)
    BY <1>1, <2>1, <2>3 DEF Administered, Administers
  <2>4. CASE ~Administers(r.new)
    <3>1. PICK v \in Created : v # u /\ Administers(users[v])
      BY <1>1, <1>2, <1>5, <2>1, <2>2, <2>4 DEF AInv, AsRead, Administers
    <3>2. users'[v] = users[v]
      BY <3>1, CommitAdmins
    <3> QED BY <1>1, <3>1, <3>2 DEF Administered, Administers
  <2> QED BY <2>3, <2>4
<1> QED BY <1>3, <1>4, <1>5

\* An application that has an active administrator keeps one, whatever is in
\* flight, unless a command that could take one away crossed another about
\* administrators (_would_remove_last_admin, scripts/users.py).
THEOREM AnAdminRemains == Spec => AdminRemains
<1>1. AInv /\ [Next]_vars => [Administered => Administered' \/ crowded']_vars
  <2> SUFFICES ASSUME AInv, Next, Administered, ~crowded' PROVE Administered'
    BY DEF vars
  <2> USE DEF ghosts
  <2>1. ASSUME UNCHANGED users PROVE Administered'
    BY <2>1 DEF Administered, Created
  <2>2. ASSUME NEW slot \in Slots, Begin(slot) PROVE Administered'
    BY <2>1, <2>2, BeginAccepts DEF AInv
  <2>3. ASSUME NEW slot \in Slots, Commit(slot) PROVE Administered'
    BY <2>3, CommitKeepsAdmin
  <2>4. ASSUME NEW slot \in Slots, Abandon(slot) PROVE Administered'
    BY <2>1, <2>4 DEF Abandon
  <2>5. ASSUME NEW new \in NewUsers, CreateUser(new) PROVE Administered'
    <3>1. new.user \notin Created /\ \A v \in Created : users'[v] = users[v]
      BY <2>5 DEF CreateUser, Created, AInv, TypeOK
    <3> QED BY <3>1 DEF Administered, Created
  <2>6. ASSUME NEW b \in Browsers, EndSession(b) PROVE Administered'
    BY <2>1, <2>6 DEF EndSession
  <2>7. ASSUME NEW u \in Users, LockExpires(u) PROVE Administered'
    <3>1. u \in Created /\ users' = [users EXCEPT ![u].locked = "past"]
      BY <2>7 DEF LockExpires
    <3>2. \A v \in Created : /\ users[v] \in UserRows /\ v \in Users
                             /\ users[v] # Null
      BY CreatedHasRow DEF AInv, Created
    <3>3. [users[u] EXCEPT !.locked = "past"] \in UserRows
      BY <3>1, <3>2 DEF UserRows, Locks
    <3>4. \A v \in Created : /\ users'[v].role = users[v].role
                             /\ users'[v].active = users[v].active
                             /\ users'[v] # Null
      BY <3>1, <3>2, <3>3, AccountsConstantsOK DEF UserRows, AInv, TypeOK
    <3> QED BY <3>2, <3>4 DEF Administered, Created
  <2> QED BY <2>2, <2>3, <2>4, <2>5, <2>6, <2>7 DEF Next
<1> QED BY <1>1, InitAInv, NextAInv, PTL DEF Spec, AdminRemains

------------------------------------------------------------------------------
(* Binomial coefficients *)

LEMMA LeastNat ==
  ASSUME NEW T, T \subseteq Nat, T # {} PROVE \E x \in T : \A y \in T : x <= y
<1>1. PICK x \in T : \A y \in T : <<y, x>> \notin OpToRel(<, Nat)
  BY NatLessThanWellFounded, WFMin
<1>2. \A y \in T : ~(y < x)
  BY <1>1 DEF OpToRel
<1> QED BY <1>2

\* f is the factorial up to n.
UpTo(f, n) ==
  /\ f \in [0..n -> Nat \ {0}]
  /\ f[0] = 1 /\ \A m \in 1..n : f[m] = m * f[m - 1]

LEMMA UpToExists == ASSUME NEW n \in Nat PROVE \E f : UpTo(f, n)
<1> DEFINE Bad == {m \in Nat : ~\E f : UpTo(f, m)}
<1> SUFFICES ASSUME Bad # {} PROVE FALSE
  OBVIOUS
<1>1. PICK m \in Bad : \A k \in Bad : m <= k
  <2>1. Bad \subseteq Nat
    OBVIOUS
  <2> HIDE DEF Bad
  <2> QED BY <2>1, LeastNat
<1>2. m # 0
  <2>1. UpTo([k \in 0..0 |-> 1], 0)
    BY DEF UpTo
  <2> QED BY <1>1, <2>1
<1>3. m \in Nat /\ m - 1 \in Nat /\ m - 1 \notin Bad
  BY <1>1, <1>2
<1>4. PICK f : UpTo(f, m - 1)
  BY <1>3
<1> DEFINE last == m * f[m - 1]
           g == [k \in 0..m |-> IF k = m THEN last ELSE f[k]]
<1>5. f[m - 1] \in Nat \ {0} /\ \A k \in 0..(m - 1) : f[k] \in Nat \ {0}
  BY <1>3, <1>4 DEF UpTo
<1>6. last \in Nat \ {0}
  BY <1>2, <1>3, <1>5
<1>7. g \in [0..m -> Nat \ {0}]
  <2> HIDE DEF last
  <2>1. \A k \in 0..m : k = m \/ k \in 0..(m - 1)
    BY <1>3
  <2> QED BY <1>5, <1>6, <2>1
<1>8. g[0] = 1
  BY <1>2, <1>3, <1>4 DEF UpTo
<1>9. ASSUME NEW k \in 1..m PROVE g[k] = k * g[k - 1]
  <2>1. k - 1 \in 0..m /\ k \in 0..m /\ k - 1 # m
    BY <1>3
  <2>2. CASE k = m
    <3>1. g[k] = last /\ g[k - 1] = f[m - 1]
      BY <2>1, <2>2
    <3> QED BY <2>2, <3>1
  <2>3. CASE k # m
    <3>1. k \in 1..(m - 1)
      BY <1>3, <2>3
    <3>2. g[k] = f[k] /\ g[k - 1] = f[k - 1]
      BY <2>1, <2>3
    <3> QED BY <1>4, <3>1, <3>2 DEF UpTo
  <2> QED BY <2>2, <2>3
<1> HIDE DEF g
<1>10. UpTo(g, m)
  BY <1>7, <1>8, <1>9 DEF UpTo
<1> QED BY <1>1, <1>10

LEMMA UpToAgree ==
  ASSUME NEW m \in Nat, NEW n \in Nat, NEW f, NEW g, UpTo(f, m), UpTo(g, n),
         NEW k \in Nat, k <= m, k <= n
  PROVE  f[k] = g[k]
<1> DEFINE Bad == {i \in 0..k : f[i] # g[i]}
<1> SUFFICES ASSUME Bad # {} PROVE FALSE
  OBVIOUS
<1>1. PICK i \in Bad : \A j \in Bad : i <= j
  <2>1. Bad \subseteq Nat
    OBVIOUS
  <2> HIDE DEF Bad
  <2> QED BY <2>1, LeastNat
<1>2. i # 0
  BY <1>1 DEF UpTo
<1>3. i \in 1..m /\ i \in 1..n /\ i - 1 \in 0..k /\ ~(i <= i - 1)
  BY <1>1, <1>2
<1>4. f[i - 1] = g[i - 1]
  BY <1>1, <1>3
<1>5. f[i] = i * f[i - 1] /\ g[i] = i * g[i - 1]
  BY <1>3 DEF UpTo
<1> QED BY <1>1, <1>4, <1>5

LEMMA Factorial ==
  /\ factorial \in [Nat -> Nat \ {0}]
  /\ factorial[0] = 1
  /\ \A n \in Nat : factorial[n + 1] = (n + 1) * factorial[n]
<1> DEFINE To(n) == CHOOSE f : UpTo(f, n)
<1>1. \A n \in Nat : UpTo(To(n), n)
  BY UpToExists
<1> DEFINE F == [n \in Nat |-> To(n)[n]]
<1> HIDE DEF To
<1>2. \A n \in Nat : F[n] \in Nat \ {0}
  BY <1>1 DEF UpTo
<1>3. F[0] = 1
  BY <1>1 DEF UpTo
<1>4. ASSUME NEW n \in Nat, n # 0 PROVE F[n] = n * F[n - 1]
  <2>1. n - 1 \in Nat /\ n - 1 <= n - 1 /\ n - 1 <= n /\ n \in 1..n
    BY <1>4
  <2>2. To(n)[n] = n * To(n)[n - 1]
    BY <1>1, <2>1 DEF UpTo
  <2>3. To(n)[n - 1] = To(n - 1)[n - 1]
    BY <1>1, <2>1, UpToAgree
  <2> QED BY <2>1, <2>2, <2>3
<1>5. F = [n \in Nat |-> F[n]]
  OBVIOUS
<1> HIDE DEF F
<1>6. F = [n \in Nat |-> IF n = 0 THEN 1 ELSE n * F[n - 1]]
  BY <1>3, <1>4, <1>5
<1>7. factorial = [n \in Nat |-> IF n = 0 THEN 1 ELSE n * factorial[n - 1]]
  BY <1>6 DEF factorial
<1>8. factorial[0] = 1 /\ \A n \in Nat : n # 0 => factorial[n] = n * factorial[n - 1]
  BY <1>7
<1>9. \A n \in Nat : factorial[n] = F[n]
  <2> DEFINE Bad == {n \in Nat : factorial[n] # F[n]}
  <2> SUFFICES ASSUME Bad # {} PROVE FALSE
    OBVIOUS
  <2>1. PICK n \in Bad : \A m \in Bad : n <= m
    <3>1. Bad \subseteq Nat
      OBVIOUS
    <3> HIDE DEF Bad
    <3> QED BY <3>1, LeastNat
  <2>2. n # 0
    BY <1>3, <1>8, <2>1
  <2>3. n - 1 \in Nat /\ ~(n <= n - 1)
    BY <2>1, <2>2
  <2>4. factorial[n - 1] = F[n - 1]
    BY <2>1, <2>3
  <2> QED BY <1>4, <1>8, <2>1, <2>2, <2>4
<1>10. factorial \in [Nat -> Nat \ {0}]
  BY <1>2, <1>7, <1>9
<1>11. \A n \in Nat : n + 1 \in Nat /\ n + 1 # 0 /\ (n + 1) - 1 = n
  OBVIOUS
<1> QED BY <1>8, <1>10, <1>11

LEMMA Quotient ==
  ASSUME NEW c \in Nat, NEW d \in Nat \ {0} PROVE (c * d) \div d = c
OBVIOUS

\* The ways to choose j out of d + j.
Ways(d, j) == choose(d + j, j)
IsWays(c, d, j) == c \in Nat \ {0} /\ factorial[d + j] = c * (factorial[j] * factorial[d])

LEMMA WaysIs == ASSUME NEW d \in Nat, NEW j \in Nat, NEW c, IsWays(c, d, j) PROVE Ways(d, j) = c
<1>1. (d + j) - j = d
  OBVIOUS
<1>2. factorial[j] \in Nat \ {0} /\ factorial[d] \in Nat \ {0}
  BY Factorial
<1> DEFINE both == factorial[j] * factorial[d]
<1>3. both \in Nat \ {0}
  <2>1. ASSUME NEW x \in Nat \ {0}, NEW y \in Nat \ {0} PROVE x * y \in Nat \ {0}
    OBVIOUS
  <2> QED BY <1>2, <2>1
<1>4. Ways(d, j) = factorial[d + j] \div both
  BY <1>1 DEF Ways, choose
<1> HIDE DEF both
<1>5. factorial[d + j] = c * both /\ c \in Nat
  BY DEF IsWays, both
<1> QED BY <1>3, <1>4, <1>5, Quotient

LEMMA EdgeWays == ASSUME NEW n \in Nat PROVE IsWays(1, n, 0) /\ IsWays(1, 0, n)
<1>0. factorial[n] \in Nat /\ factorial[0] = 1
  BY Factorial
<1>1. n + 0 = n /\ 0 + n = n /\ factorial[n] \in Nat /\ factorial[0] = 1
  BY <1>0
<1>2. factorial[n] = 1 * (factorial[0] * factorial[n])
      /\ factorial[n] = 1 * (factorial[n] * factorial[0])
  BY <1>1
<1> QED BY <1>1, <1>2 DEF IsWays

LEMMA PascalStep ==
  ASSUME NEW d \in Nat, NEW j \in Nat, NEW c, NEW e, IsWays(c, d, j + 1), IsWays(e, d + 1, j)
  PROVE  IsWays(c + e, d + 1, j + 1)
<1> DEFINE x == factorial[j]
           y == factorial[d]
           X == factorial[j + 1]
           Y == factorial[d + 1]
           T == factorial[d + j + 1]
<1>1. /\ x \in Nat /\ y \in Nat /\ X \in Nat /\ Y \in Nat /\ T \in Nat
      /\ X = (j + 1) * x /\ Y = (d + 1) * y
  <2>1. j + 1 \in Nat /\ d + 1 \in Nat /\ d + j + 1 \in Nat
    OBVIOUS
  <2>2. \A n \in Nat : factorial[n] \in Nat
    BY Factorial
  <2>3. X = (j + 1) * x /\ Y = (d + 1) * y
    BY Factorial
  <2> HIDE DEF x, y, X, Y, T
  <2>4. x \in Nat /\ y \in Nat /\ X \in Nat /\ Y \in Nat /\ T \in Nat
    BY <2>1, <2>2 DEF x, y, X, Y, T
  <2> QED BY <2>3, <2>4
<1>2. c \in Nat \ {0} /\ e \in Nat \ {0} /\ c + e \in Nat \ {0}
  BY DEF IsWays
<1>3. d + (j + 1) = d + j + 1 /\ (d + 1) + j = d + j + 1
      /\ (d + 1) + (j + 1) = (d + j + 1) + 1
  OBVIOUS
<1>4. T = c * (X * y) /\ T = e * (x * Y)
  BY <1>3 DEF IsWays
<1>5. factorial[(d + 1) + (j + 1)] = ((d + j + 1) + 1) * T
  BY <1>3, Factorial
<1> HIDE DEF x, y, X, Y, T
<1>6. (d + 1) * T = c * (X * Y)
  <2>1. (d + 1) * (c * (X * y)) = c * (X * ((d + 1) * y))
    BY <1>1, <1>2
  <2> QED BY <1>1, <1>4, <2>1
<1>7. (j + 1) * T = e * (X * Y)
  <2>1. (j + 1) * (e * (x * Y)) = e * (((j + 1) * x) * Y)
    BY <1>1, <1>2
  <2> QED BY <1>1, <1>4, <2>1
<1>8. ((d + j + 1) + 1) * T = (d + 1) * T + (j + 1) * T
  BY <1>1
<1> DEFINE b == X * Y
<1>9. b \in Nat
  BY <1>1
<1>10. (d + 1) * T = c * b /\ (j + 1) * T = e * b
  BY <1>6, <1>7
<1> HIDE DEF b
<1>11. c * b + e * b = (c + e) * b
  BY <1>2, <1>9
<1>12. factorial[(d + 1) + (j + 1)] = (c + e) * b
  BY <1>5, <1>8, <1>10, <1>11
<1> QED BY <1>2, <1>12 DEF IsWays, b, X, Y

LEMMA WaysExist == \A n \in Nat : \A d, j \in Nat : d + j = n => \E c : IsWays(c, d, j)
<1> DEFINE Good(n) == \A d, j \in Nat : d + j = n => \E c : IsWays(c, d, j)
           Bad == {n \in Nat : ~Good(n)}
<1> SUFFICES ASSUME Bad # {} PROVE FALSE
  OBVIOUS
<1>1. PICK n \in Bad : \A m \in Bad : n <= m
  <2>1. Bad \subseteq Nat
    OBVIOUS
  <2> HIDE DEF Bad
  <2> QED BY <2>1, LeastNat
<1>2. PICK d \in Nat, j \in Nat : d + j = n /\ ~\E c : IsWays(c, d, j)
  BY <1>1
<1>3. d # 0 /\ j # 0
  BY <1>2, EdgeWays
<1>4. /\ d - 1 \in Nat /\ j - 1 \in Nat /\ n - 1 \in Nat /\ ~(n <= n - 1)
      /\ (d - 1) + j = n - 1 /\ d + (j - 1) = n - 1
      /\ (d - 1) + 1 = d /\ (j - 1) + 1 = j
  BY <1>2, <1>3
<1>5. Good(n - 1)
  BY <1>1, <1>4
<1>6. PICK c : IsWays(c, d - 1, j)
  BY <1>4, <1>5
<1>7. PICK e : IsWays(e, d, j - 1)
  BY <1>4, <1>5
<1>8. IsWays(c + e, (d - 1) + 1, (j - 1) + 1)
  BY <1>4, <1>6, <1>7, PascalStep
<1> QED BY <1>2, <1>4, <1>8

LEMMA Pascal ==
  ASSUME NEW d \in Nat, NEW j \in Nat
  PROVE  /\ Ways(d, j) \in Nat \ {0}
         /\ Ways(d, 0) = 1 /\ Ways(0, j) = 1
         /\ Ways(d + 1, j + 1) = Ways(d, j + 1) + Ways(d + 1, j)
<1>1. \A a, b \in Nat : IsWays(Ways(a, b), a, b)
  <2> SUFFICES ASSUME NEW a \in Nat, NEW b \in Nat PROVE IsWays(Ways(a, b), a, b)
    OBVIOUS
  <2>0. a + b \in Nat
    OBVIOUS
  <2>1. PICK c : IsWays(c, a, b)
    BY <2>0, WaysExist
  <2> QED BY <2>1, WaysIs
<1>2. Ways(d, j) \in Nat \ {0}
  BY <1>1 DEF IsWays
<1>3. Ways(d, 0) = 1 /\ Ways(0, j) = 1
  BY EdgeWays, WaysIs
<1>4. IsWays(Ways(d, j + 1) + Ways(d + 1, j), d + 1, j + 1)
  BY <1>1, PascalStep
<1>5. Ways(d + 1, j + 1) = Ways(d, j + 1) + Ways(d + 1, j)
  BY <1>4, WaysIs
<1> QED BY <1>2, <1>3, <1>5

------------------------------------------------------------------------------
(* Wrong passwords *)

Many == Cardinality(Slots)

LEMMA ManyType == Many \in Nat
BY FS_CardinalityType, AccountsConstantsOK DEF Many

LEMMA GuessesIs == Guesses = Ways(MaxFailed - 1, Many)
<1>1. (MaxFailed - 1) + Many = MaxFailed + Many - 1
  BY ManyType, AccountsConstantsOK
<1> QED BY <1>1 DEF Guesses, Ways, Many

\* What a counter lacks of the last wrong password that does not lock.
ToLock(failed) == MaxFailed - 1 - failed

\* S[j] is how many wrong passwords j slots can count that lack d[1] to d[j].
Counting(d, S) ==
  /\ d \in [1..Many -> 0..(MaxFailed - 1)] /\ S \in [0..Many -> Int]
  /\ \A i, j \in 1..Many : i <= j => d[i] <= d[j]
  /\ S[0] = 0
  /\ \A j \in 1..Many : S[j] = S[j - 1] + Ways(d[j], j) - Ways(d[j], j - 1)

LEMMA MoreWays ==
  ASSUME NEW d \in Nat, NEW j \in Nat, j > 0
  PROVE  /\ Ways(d, j) \in Nat \ {0} /\ Ways(d, j - 1) \in Nat \ {0}
         /\ Ways(d, j) >= Ways(d, j - 1)
         /\ d > 0 => /\ Ways(d - 1, j) \in Nat \ {0}
                     /\ Ways(d, j) = Ways(d - 1, j) + Ways(d, j - 1)
<1>1. j - 1 \in Nat /\ (j - 1) + 1 = j
  OBVIOUS
<1>2. Ways(d, j) \in Nat \ {0} /\ Ways(d, j - 1) \in Nat \ {0}
  BY <1>1, Pascal
<1>3. CASE d = 0
  <2>1. Ways(d, j) = 1 /\ Ways(d, j - 1) = 1
    BY <1>1, <1>3, Pascal
  <2> QED BY <1>2, <1>3, <2>1
<1>4. CASE d # 0
  <2>1. d - 1 \in Nat /\ (d - 1) + 1 = d
    BY <1>4
  <2>2. Ways(d - 1, j) \in Nat \ {0}
    BY <2>1, Pascal
  <2>3. Ways((d - 1) + 1, (j - 1) + 1) = Ways(d - 1, (j - 1) + 1) + Ways((d - 1) + 1, j - 1)
    BY <1>1, <2>1, Pascal
  <2>4. Ways(d, j) = Ways(d - 1, j) + Ways(d, j - 1)
    BY <1>1, <2>1, <2>3
  <2> QED BY <1>2, <2>2, <2>4
<1> QED BY <1>3, <1>4

LEMMA CountingPositive ==
  ASSUME NEW d, NEW S, Counting(d, S), NEW k \in 0..Many PROVE S[k] >= 0
<1> DEFINE Bad == {j \in 0..Many : S[j] < 0}
<1> SUFFICES ASSUME Bad # {} PROVE FALSE
  BY DEF Counting
<1>1. PICK j \in Bad : \A i \in Bad : j <= i
  <2>1. Bad \subseteq Nat
    BY ManyType
  <2> HIDE DEF Bad
  <2> QED BY <2>1, LeastNat
<1>2. j # 0
  BY <1>1 DEF Counting
<1>3. j \in 1..Many /\ j - 1 \in 0..Many /\ ~(j <= j - 1) /\ j \in Nat /\ j > 0
  BY <1>1, <1>2, ManyType
<1>4. S[j - 1] >= 0 /\ S[j - 1] \in Int /\ S[j] \in Int
  BY <1>1, <1>3 DEF Counting
<1>5. d[j] \in Nat
  BY <1>3, AccountsConstantsOK DEF Counting
<1>6. S[j] = S[j - 1] + Ways(d[j], j) - Ways(d[j], j - 1)
  BY <1>3 DEF Counting
<1> DEFINE w == Ways(d[j], j)
           v == Ways(d[j], j - 1)
<1>7. w \in Nat /\ v \in Nat /\ w >= v
  BY <1>3, <1>5, MoreWays
<1> HIDE DEF w, v
<1>8. S[j] = S[j - 1] + w - v
  BY <1>6 DEF w, v
<1>9. S[j] >= 0
  BY <1>4, <1>7, <1>8
<1> QED BY <1>1, <1>4, <1>9

\* Nothing counted yet.
LEMMA CountingAll ==
  Counting([j \in 1..Many |-> MaxFailed - 1],
           [j \in 0..Many |-> Ways(MaxFailed - 1, j) - 1])
<1> DEFINE D == MaxFailed - 1
           d == [j \in 1..Many |-> D]
           S == [j \in 0..Many |-> Ways(D, j) - 1]
<1>1. D \in Nat /\ Many \in Nat
  BY ManyType, AccountsConstantsOK
<1>2. \A j \in 0..Many : Ways(D, j) \in Nat /\ S[j] = Ways(D, j) - 1
  <2>1. \A j \in 0..Many : j \in Nat
    BY <1>1
  <2> HIDE DEF D
  <2> QED BY <1>1, <2>1, Pascal
<1>3. S[0] = 0
  BY <1>1, <1>2, Pascal
<1>4. S \in [0..Many -> Int]
  BY <1>2
<1>5. d \in [1..Many -> 0..D] /\ \A j \in 1..Many : d[j] = D
  BY <1>1
<1>6. \A j \in 1..Many : j \in 0..Many /\ j - 1 \in 0..Many
  BY <1>1
<1> HIDE DEF S, d
<1>7. ASSUME NEW j \in 1..Many PROVE S[j] = S[j - 1] + Ways(d[j], j) - Ways(d[j], j - 1)
  <2>1. d[j] = D
    BY <1>5
  <2>2. S[j] = Ways(D, j) - 1 /\ S[j - 1] = Ways(D, j - 1) - 1
        /\ Ways(D, j) \in Nat /\ Ways(D, j - 1) \in Nat
    BY <1>2, <1>6
  <2> DEFINE w == Ways(D, j)
             v == Ways(D, j - 1)
  <2>3. S[j] = w - 1 /\ S[j - 1] = v - 1 /\ w \in Nat /\ v \in Nat
    BY <2>2
  <2> HIDE DEF w, v, D
  <2>4. S[j] = S[j - 1] + w - v
    BY <2>3
  <2> QED BY <2>1, <2>4 DEF w, v
<1>8. Counting(d, S)
  <2> HIDE DEF D
  <2>1. \A i, j \in 1..Many : d[i] <= d[j]
    BY <1>1, <1>5
  <2> QED BY <1>3, <1>4, <1>5, <1>7, <2>1 DEF Counting, D
<1> QED BY <1>8 DEF d, S

\* One counts, of those that lack most as little as any.
LEMMA CountingOne ==
  ASSUME NEW d, NEW S, Counting(d, S),
         NEW q \in 1..Many, d[q] > 0, \A i \in 1..Many : i < q => d[i] < d[q]
  PROVE  LET e == [j \in 1..Many |-> IF j <= q THEN d[q] - 1 ELSE d[j]]
         IN  \E T : Counting(e, T) /\ T[Many] < S[Many]
<1> DEFINE D == d[q] - 1
           e == [j \in 1..Many |-> IF j <= q THEN D ELSE d[j]]
           T == [j \in 0..Many |-> IF j <= q THEN Ways(D, j) - 1 ELSE S[j] - S[q - 1] - 1]
<1>1. /\ Many \in Nat /\ q \in Nat /\ q > 0 /\ q <= Many /\ MaxFailed - 1 \in Nat
      /\ q - 1 \in 0..Many /\ q \in 0..Many
  BY ManyType, AccountsConstantsOK
<1>2. /\ \A j \in 1..Many : d[j] \in 0..(MaxFailed - 1)
      /\ \A j \in 0..Many : S[j] \in Int
  BY DEF Counting
<1>3. D \in Nat /\ D \in 0..(MaxFailed - 1) /\ d[q] \in Nat /\ D < d[q] /\ D + 1 = d[q]
  BY <1>1, <1>2
<1> HIDE DEF D
<1>4. /\ \A j \in 1..Many : j <= q => e[j] = D
      /\ \A j \in 1..Many : ~(j <= q) => e[j] = d[j]
  OBVIOUS
<1>5. /\ \A j \in 0..Many : j <= q => T[j] = Ways(D, j) - 1
      /\ \A j \in 0..Many : ~(j <= q) => T[j] = S[j] - S[q - 1] - 1
  OBVIOUS
<1>6. \A j \in 0..Many : Ways(D, j) \in Nat \ {0}
  <2>1. \A j \in 0..Many : j \in Nat
    BY <1>1
  <2> QED BY <1>3, <2>1, Pascal
<1>7. e \in [1..Many -> 0..(MaxFailed - 1)]
  BY <1>2, <1>3
<1>8. T \in [0..Many -> Int]
  BY <1>1, <1>2, <1>6
<1>9. \A i, j \in 1..Many : i <= j => e[i] <= e[j]
  <2> SUFFICES ASSUME NEW i \in 1..Many, NEW j \in 1..Many, i <= j PROVE e[i] <= e[j]
    OBVIOUS
  <2>1. d[i] <= d[j] /\ (q <= j => d[q] <= d[j])
    BY DEF Counting
  <2>2. d[i] \in Int /\ d[j] \in Int /\ d[q] \in Int /\ D \in Int
    BY <1>2, <1>3
  <2>3. e[i] = (IF i <= q THEN D ELSE d[i]) /\ e[j] = (IF j <= q THEN D ELSE d[j])
    OBVIOUS
  <2> HIDE DEF e
  <2> QED BY <1>1, <1>3, <2>1, <2>2, <2>3
<1>10. S[q] = S[q - 1] + Ways(D, q)
  <2>1. S[q] = S[q - 1] + Ways(d[q], q) - Ways(d[q], q - 1)
    BY DEF Counting
  <2>2. /\ Ways(d[q], q) \in Nat /\ Ways(d[q], q - 1) \in Nat
        /\ Ways(d[q], q) = Ways(D, q) + Ways(d[q], q - 1)
    BY <1>1, <1>3, MoreWays DEF D
  <2> DEFINE w == Ways(d[q], q)
             v == Ways(d[q], q - 1)
             x == Ways(D, q)
  <2>3. S[q] = S[q - 1] + w - v /\ w = x + v /\ w \in Nat /\ v \in Nat
        /\ x \in Nat /\ S[q - 1] \in Int
    BY <1>1, <1>2, <1>6, <2>1, <2>2
  <2> HIDE DEF w, v, x
  <2>4. S[q] = S[q - 1] + x
    BY <2>3
  <2> QED BY <2>4 DEF x
<1>11. T[q] = S[q] - S[q - 1] - 1
  <2> DEFINE x == Ways(D, q)
  <2>1. T[q] = x - 1 /\ S[q] = S[q - 1] + x /\ x \in Nat /\ S[q - 1] \in Int
    BY <1>1, <1>2, <1>5, <1>6, <1>10
  <2> HIDE DEF x, T
  <2> QED BY <2>1
<1> HIDE DEF T, e
<1>12. T[0] = 0
  <2>1. 0 \in 0..Many /\ 0 <= q
    BY <1>1
  <2>2. T[0] = Ways(D, 0) - 1
    BY <1>5, <2>1
  <2>3. Ways(D, 0) = 1
    BY <1>3, Pascal
  <2> QED BY <2>2, <2>3
<1>13. ASSUME NEW j \in 1..Many PROVE T[j] = T[j - 1] + Ways(e[j], j) - Ways(e[j], j - 1)
  <2>1. j \in Nat /\ j > 0 /\ j \in 0..Many /\ j - 1 \in 0..Many
    BY <1>1
  <2>2. CASE j <= q
    <3>1. j - 1 <= q /\ e[j] = D
      BY <1>1, <1>4, <2>1, <2>2
    <3> DEFINE w == Ways(D, j)
               v == Ways(D, j - 1)
    <3>2. T[j] = w - 1 /\ T[j - 1] = v - 1 /\ w \in Nat /\ v \in Nat
      BY <1>5, <1>6, <2>1, <2>2, <3>1
    <3> HIDE DEF w, v
    <3>3. T[j] = T[j - 1] + w - v
      BY <3>2
    <3> QED BY <3>1, <3>3 DEF w, v
  <2>3. CASE ~(j <= q)
    <3> DEFINE w == Ways(d[j], j)
               v == Ways(d[j], j - 1)
    <3>1. e[j] = d[j] /\ d[j] \in Nat
      BY <1>1, <1>2, <1>4, <2>3
    <3>2. w \in Nat /\ v \in Nat
      BY <2>1, <3>1, MoreWays
    <3>3. S[j] = S[j - 1] + w - v
      BY DEF Counting
    <3> HIDE DEF w, v
    <3>4. T[j] = S[j] - S[q - 1] - 1
      BY <1>5, <2>1, <2>3
    <3>5. T[j - 1] = S[j - 1] - S[q - 1] - 1
      <4>1. CASE j - 1 = q
        BY <1>11, <4>1
      <4>2. CASE j - 1 # q
        <5>1. ~(j - 1 <= q)
          BY <1>1, <2>1, <2>3, <4>2
        <5> QED BY <1>5, <2>1, <5>1
      <4> QED BY <4>1, <4>2
    <3>6. S[j] \in Int /\ S[j - 1] \in Int /\ S[q - 1] \in Int
      BY <1>1, <1>2, <2>1
    <3>7. T[j] = T[j - 1] + w - v
      BY <3>2, <3>3, <3>4, <3>5, <3>6
    <3> QED BY <3>1, <3>7 DEF w, v
  <2> QED BY <2>2, <2>3
<1>14. Counting(e, T)
  BY <1>7, <1>8, <1>9, <1>12, <1>13 DEF Counting
<1>15. T[Many] < S[Many]
  <2>1. Many \in 0..Many /\ (~(Many <= q) \/ Many = q)
    BY <1>1
  <2>2. T[Many] = S[Many] - S[q - 1] - 1
    BY <1>5, <1>11, <2>1
  <2>3. S[q - 1] >= 0 /\ S[q - 1] \in Int /\ S[Many] \in Int
    BY <1>1, <1>2, <2>1, CountingPositive
  <2> QED BY <2>2, <2>3
<1> QED BY <1>14, <1>15 DEF e, D

\* The counter of a user, and those that wrong passwords in flight have read.
Lacks(u, slots, d) ==
  \A j \in 1..Many :
    /\ ToLock(users[u].failed) <= d[j]
    /\ LET r == requests[slots[j]] IN
       r.kind = "failure" /\ r.user = u => ToLock(r.seen.failed) <= d[j]

\* A user's wrong passwords, with those that may still be counted, are too few.
Bounded(u) ==
  \E slots, d, S :
    /\ slots \in [1..Many -> Slots]
    /\ \A slot \in Slots : \E j \in 1..Many : slots[j] = slot
    /\ Counting(d, S) /\ Lacks(u, slots, d)
    /\ tries[u] + S[Many] < Guesses

\* Only an account that is not locked counts a wrong password.
FailuresOpen ==
  \A slot \in Slots : requests[slot].kind = "failure" => requests[slot].seen.locked # "future"

NoneBefore == \A u \in Users \ Created : tries[u] = 0

LInv == TypeOK /\ Decided /\ FailuresOpen /\ NoneBefore /\ \A u \in Created : Bounded(u)

LEMMA BoundedLocks == ASSUME TypeOK, NEW u \in Created, Bounded(u) PROVE tries[u] < Guesses
<1> PICK d, S : Counting(d, S) /\ tries[u] + S[Many] < Guesses
  BY DEF Bounded
<1>1. Many \in 0..Many
  BY ManyType
<1>2. S[Many] >= 0 /\ S[Many] \in Int
  BY <1>1, CountingPositive DEF Counting
<1>3. tries[u] \in Nat
  BY DEF TypeOK, Created
<1>4. Guesses \in Nat
  <2>1. MaxFailed - 1 \in Nat
    BY AccountsConstantsOK
  <2> QED BY <2>1, ManyType, GuessesIs, Pascal
<1> QED BY <1>2, <1>3, <1>4

\* After a right password, a reset or a lock, counting begins anew.
LEMMA BoundedAnew ==
  ASSUME TypeOK', NEW u \in Created', tries'[u] = 0
  PROVE  Bounded(u)'
<1> DEFINE d == [j \in 1..Many |-> MaxFailed - 1]
           S == [j \in 0..Many |-> Ways(MaxFailed - 1, j) - 1]
<1>1. PICK slots \in [1..Many -> Slots] :
        \A slot \in Slots : \E j \in 1..Many : slots[j] = slot
  BY FS_CardinalityType, AccountsConstantsOK DEF ExistsBijection, Bijection, Surjection, Many
<1>2. Counting(d, S)
  BY CountingAll
<1>3. \A j \in 1..Many : d[j] = MaxFailed - 1
  OBVIOUS
<1>4. \A n \in Nat : ToLock(n) <= MaxFailed - 1
  BY AccountsConstantsOK DEF ToLock
<1>5. users'[u] \in UserRows
  BY DEF TypeOK, Created, OrNull
<1>6. \A slot \in Slots :
        requests'[slot].kind = "failure" => requests'[slot].seen \in UserRows
  BY DEF TypeOK, Idle
<1>7. 0 + S[Many] < Guesses
  <2>1. MaxFailed - 1 \in Nat /\ Many \in 0..Many
    BY ManyType, AccountsConstantsOK
  <2>2. S[Many] = Ways(MaxFailed - 1, Many) - 1
    BY <2>1
  <2>3. Guesses = Ways(MaxFailed - 1, Many) /\ Guesses \in Nat
    BY <2>1, ManyType, GuessesIs, Pascal
  <2> HIDE DEF S
  <2> QED BY <2>2, <2>3
<1> HIDE DEF d, S
<1>8. ASSUME NEW j \in 1..Many
      PROVE  /\ ToLock(users'[u].failed) <= d[j]
             /\ requests'[slots[j]].kind = "failure" =>
                  ToLock(requests'[slots[j]].seen.failed) <= d[j]
  BY <1>3, <1>4, <1>5, <1>6 DEF UserRows
<1>9. Lacks(u, slots, d)'
  BY <1>8 DEF Lacks
<1> QED BY <1>1, <1>2, <1>7, <1>9 DEF Bounded

\* A step that neither counts nor changes what is counted.
LEMMA BoundedStays ==
  ASSUME NEW u, Bounded(u), tries'[u] = tries[u], users'[u].failed = users[u].failed,
         \A slot \in Slots :
           requests'[slot].kind = "failure" /\ requests'[slot].user = u =>
             \/ requests'[slot] = requests[slot]
             \/ requests'[slot].seen = users[u]
  PROVE  Bounded(u)'
<1>1. PICK slots, d, S :
        /\ slots \in [1..Many -> Slots]
        /\ \A slot \in Slots : \E j \in 1..Many : slots[j] = slot
        /\ Counting(d, S) /\ Lacks(u, slots, d)
        /\ tries[u] + S[Many] < Guesses
  BY DEF Bounded
<1>2. ASSUME NEW j \in 1..Many
      PROVE  /\ ToLock(users'[u].failed) <= d[j]
             /\ requests'[slots[j]].kind = "failure" /\ requests'[slots[j]].user = u =>
                  ToLock(requests'[slots[j]].seen.failed) <= d[j]
  BY <1>1 DEF Lacks
<1>3. Lacks(u, slots, d)'
  BY <1>2 DEF Lacks
<1> QED BY <1>1, <1>3 DEF Bounded

\* A wrong password is counted.
LEMMA BoundedCounts ==
  ASSUME TypeOK, NEW u \in Created, Bounded(u), NEW slot \in Slots,
         requests[slot].kind = "failure", requests[slot].user = u,
         NEW h \in Nat, requests[slot].seen.failed = h, h + 1 < MaxFailed,
         users'[u].failed = h + 1, tries'[u] = tries[u] + 1,
         requests'[slot].kind = "idle",
         \A o \in Slots \ {slot} : requests'[o] = requests[o]
  PROVE  Bounded(u)'
<1>1. PICK slots, d, S :
        /\ slots \in [1..Many -> Slots]
        /\ \A o \in Slots : \E j \in 1..Many : slots[j] = o
        /\ Counting(d, S) /\ Lacks(u, slots, d)
        /\ tries[u] + S[Many] < Guesses
  BY DEF Bounded
<1>2. PICK p \in 1..Many : slots[p] = slot
  BY <1>1
<1>3. MaxFailed \in Nat /\ Many \in Nat /\ \A j \in 1..Many : d[j] \in Int
  BY <1>1, ManyType, AccountsConstantsOK DEF Counting
<1>4. PICK q \in 1..Many : d[q] = d[p] /\ \A i \in 1..Many : i < q => d[i] # d[p]
  <2> DEFINE T == {j \in 1..Many : d[j] = d[p]}
  <2>1. T \subseteq Nat /\ T # {}
    BY <1>3
  <2>2. PICK q \in T : \A i \in T : q <= i
    <3> HIDE DEF T
    <3> QED BY <2>1, LeastNat
  <2>3. \A i \in 1..Many : i < q => ~(q <= i)
    BY <1>3
  <2> QED BY <2>2, <2>3
<1> DEFINE D == d[q]
<1>5. /\ \A i \in 1..Many : i < q => d[i] < D
      /\ \A i \in 1..Many : ~(i <= q) => D <= d[i]
      /\ D \in Int
  <2>1. \A i, j \in 1..Many : i <= j => d[i] <= d[j]
    BY <1>1 DEF Counting
  <2> QED BY <1>3, <1>4, <2>1
<1>6. ToLock(h) <= D /\ ToLock(h) > 0 /\ ToLock(h + 1) = ToLock(h) - 1 /\ ToLock(h) \in Int
  BY <1>1, <1>2, <1>3, <1>4 DEF Lacks, ToLock
<1>e. PICK e : e = [j \in 1..Many |-> IF j <= q THEN d[q] - 1 ELSE d[j]]
  OBVIOUS
<1>m. PICK moved :
        moved = [j \in 1..Many |-> IF j = q THEN slot ELSE IF j = p THEN slots[q]
                                    ELSE slots[j]]
  OBVIOUS
<1>7. PICK T : Counting(e, T) /\ T[Many] < S[Many]
  <2>1. d[q] > 0 /\ \A i \in 1..Many : i < q => d[i] < d[q]
    BY <1>5, <1>6
  <2> QED BY <1>1, <1>e, <2>1, CountingOne
<1>8. /\ \A j \in 1..Many : j <= q => e[j] = D - 1
      /\ \A j \in 1..Many : ~(j <= q) => e[j] = d[j]
  BY <1>e
<1>9. \A o \in Slots : \E j \in 1..Many : moved[j] = o
  <2> SUFFICES ASSUME NEW o \in Slots PROVE \E j \in 1..Many : moved[j] = o
    OBVIOUS
  <2>1. PICK j \in 1..Many : slots[j] = o
    BY <1>1
  <2>2. CASE j = p
    BY <1>2, <2>1, <2>2, <1>m
  <2>3. CASE j # p /\ j = q
    BY <2>1, <2>3, <1>m
  <2>4. CASE j # p /\ j # q
    BY <2>1, <2>4, <1>m
  <2> QED BY <2>2, <2>3, <2>4
<1>10. moved \in [1..Many -> Slots]
  BY <1>1, <1>m
<1>11. /\ moved[q] = slot /\ (p # q => moved[p] = slots[q])
       /\ \A j \in 1..Many : j # p /\ j # q => moved[j] = slots[j]
  BY <1>m
<1> HIDE DEF D
<1>12. ASSUME NEW j \in 1..Many
       PROVE  /\ ToLock(users'[u].failed) <= e[j]
              /\ requests'[moved[j]].kind = "failure" /\ requests'[moved[j]].user = u =>
                   ToLock(requests'[moved[j]].seen.failed) <= e[j]
  <2>1. ToLock(h + 1) <= e[j]
    BY <1>3, <1>5, <1>6, <1>8
  <2>2. ASSUME requests'[moved[j]].kind = "failure", requests'[moved[j]].user = u
        PROVE  ToLock(requests'[moved[j]].seen.failed) <= e[j]
    <3> DEFINE o == moved[j]
               held == requests[o].seen.failed
    <3>1. o \in Slots /\ o # slot
      BY <1>10, <2>2
    <3>2. requests'[o] = requests[o]
      BY <3>1
    <3>3. requests[o] # Idle
      BY <2>2, <3>2 DEF Idle
    <3>4. held \in Nat
      BY <3>1, <3>3, InRequests DEF Requests, UserRows
    <3>5. ToLock(held) \in Int
      BY <1>3, <3>4 DEF ToLock
    <3>6. j # q
      BY <1>11, <3>1
    <3>7. CASE j = p
      <4>1. o = slots[q] /\ ~(p <= q)
        BY <1>3, <1>4, <1>11, <3>6, <3>7
      <4>2. ToLock(held) <= d[q]
        BY <1>1, <2>2, <3>2, <4>1 DEF Lacks
      <4> QED BY <1>4, <1>8, <3>2, <3>7, <4>1, <4>2
    <3>8. CASE j # p
      <4>1. o = slots[j]
        BY <1>11, <3>6, <3>8
      <4>2. ToLock(held) <= d[j]
        BY <1>1, <2>2, <3>2, <4>1 DEF Lacks
      <4>3. d[j] \in Int /\ (j <= q => d[j] < D)
        BY <1>3, <1>5, <3>6
      <4>4. d[j] <= e[j]
        BY <1>5, <1>8, <4>3
      <4>5. e[j] \in Int
        BY <1>5, <1>8, <4>3
      <4> HIDE DEF held, o
      <4>6. ToLock(held) <= e[j]
        BY <3>5, <4>2, <4>3, <4>4, <4>5
      <4> QED BY <3>2, <4>6 DEF held, o
    <3> QED BY <3>7, <3>8
  <2> QED BY <2>1, <2>2
<1>13. Lacks(u, moved, e)'
  BY <1>12 DEF Lacks
<1>14. tries'[u] + T[Many] < Guesses
  <2>1. S[Many] \in Int /\ T[Many] \in Int
    BY <1>1, <1>3, <1>7 DEF Counting
  <2>2. tries[u] \in Nat
    BY DEF TypeOK, Created
  <2>3. Guesses \in Int
    <3>1. MaxFailed - 1 \in Nat
      BY AccountsConstantsOK
    <3> QED BY <3>1, ManyType, GuessesIs, Pascal
  <2> QED BY <1>1, <1>7, <2>1, <2>2, <2>3
<1>15. /\ moved \in [1..Many -> Slots]
       /\ \A o \in Slots : \E j \in 1..Many : moved[j] = o
       /\ Counting(e, T) /\ Lacks(u, moved, e)'
       /\ tries'[u] + T[Many] < Guesses
  BY <1>7, <1>9, <1>10, <1>13, <1>14
<1> QED BY ONLY <1>15, Zenon DEF Bounded

\* What a commit does to the counter and to the number of wrong passwords.
LEMMA CommitTries ==
  ASSUME LInv, NEW slot \in Slots, Commit(slot)
  PROVE  LET r == requests[slot]  u == r.user IN
         /\ u \in Created /\ u \in Users /\ Created' = Created
         /\ \A v \in Users \ {u} : users'[v] = users[v] /\ tries'[v] = tries[v]
         /\ \/ tries'[u] = 0
            \/ tries'[u] = tries[u] /\ users'[u].failed = users[u].failed
            \/ /\ r.kind = "failure" /\ r.seen.failed \in Nat
               /\ r.seen.failed + 1 < MaxFailed
               /\ users'[u].failed = r.seen.failed + 1 /\ tries'[u] = tries[u] + 1
<1> DEFINE r == requests[slot]
           u == r.user
<1>1. /\ r \in Requests /\ u \in Created /\ u \in Users /\ Created' = Created
      /\ users[u] \in UserRows /\ r.seen \in UserRows /\ r.kind \in RequestKinds
      /\ users' = [users EXCEPT ![u] = Saved(r.seen, r.new, @)]
  BY CommitWrites, CreatedHasRow DEF LInv, Requests
<1>2. r # Idle /\ r.new = NewRow(r)
  BY DEF LInv, Decided, Commit
<1>3. tries' = [tries EXCEPT ![u] =
        CASE r.kind = "failure" -> IF users'[u].locked = "future" THEN 0 ELSE @ + 1
          [] r.kind \in {"signin", "change", "reset", "temporary", "unlock"} -> 0
          [] OTHER -> @]
  BY DEF Commit, CountTries
<1>4. users \in [Users -> OrNull(UserRows)] /\ tries \in [Users -> Nat]
  BY DEF LInv, TypeOK
<1>5. /\ \A v \in Users \ {u} : users'[v] = users[v] /\ tries'[v] = tries[v]
      /\ users'[u].failed = Save(r.seen.failed, r.new.failed, users[u].failed)
      /\ users'[u].locked = Save(r.seen.locked, r.new.locked, users[u].locked)
  BY <1>1, <1>3, <1>4 DEF Saved
<1>6. CASE r.kind \in {"signin", "change", "reset", "temporary", "unlock"}
  <2>1. tries'[u] = 0
    BY <1>1, <1>3, <1>4, <1>6
  <2> QED BY <1>1, <1>5, <2>1
<1>7. CASE r.kind \in {"disable", "enable", "role"}
  <2>1. tries'[u] = tries[u]
    BY <1>1, <1>3, <1>4, <1>7
  <2>2. r.new.failed = r.seen.failed
    <3>1. CASE r.kind = "disable"
      BY <1>1, <1>2, <3>1 DEF NewRow, Disabled, Bump, UserRows
    <3>2. CASE r.kind = "enable"
      BY <1>1, <1>2, <3>2 DEF NewRow, Enabled, UserRows
    <3>3. CASE r.kind = "role"
      BY <1>1, <1>2, <3>3 DEF NewRow, InRole, Bump, UserRows
    <3> QED BY <1>7, <3>1, <3>2, <3>3
  <2>3. users'[u].failed = users[u].failed
    BY <1>5, <2>2 DEF Save
  <2> QED BY <1>1, <1>5, <2>1, <2>3
<1>8. CASE r.kind = "failure"
  <2>1. r.new = Failed(r.seen) /\ r.seen.locked # "future" /\ r.seen.failed \in Nat
    BY <1>1, <1>2, <1>8 DEF NewRow, LInv, FailuresOpen, UserRows
  <2>2. tries'[u] = IF users'[u].locked = "future" THEN 0 ELSE tries[u] + 1
    BY <1>1, <1>3, <1>4, <1>8
  <2>3. CASE r.seen.failed + 1 >= MaxFailed
    <3>1. r.new.locked = "future"
      BY <1>1, <2>1, <2>3 DEF Failed, UserRows
    <3>2. users'[u].locked = "future"
      BY <1>5, <2>1, <3>1 DEF Save
    <3> QED BY <1>1, <1>5, <2>2, <3>2
  <2>4. CASE ~(r.seen.failed + 1 >= MaxFailed)
    <3>1. r.new.failed = r.seen.failed + 1
      BY <1>1, <2>1, <2>4 DEF Failed, UserRows
    <3>2. users'[u].failed = r.seen.failed + 1
      BY <1>5, <2>1, <3>1 DEF Save
    <3>3. r.seen.failed + 1 < MaxFailed
      BY <2>1, <2>4, AccountsConstantsOK
    <3> QED BY <1>1, <1>5, <1>8, <2>1, <2>2, <3>2, <3>3
  <2> QED BY <2>3, <2>4
<1> QED BY <1>1, <1>6, <1>7, <1>8 DEF RequestKinds, Bumping

LEMMA CommitLInv == ASSUME LInv, NEW slot \in Slots, Commit(slot) PROVE LInv'
<1> DEFINE r == requests[slot]
           u == r.user
<1>1. TypeOK'
  BY CommitTypeOK DEF LInv
<1>2. /\ r \in Requests /\ requests'[slot] = Idle
      /\ \A o \in Slots \ {slot} : requests'[o] = requests[o]
  BY CommitWrites DEF LInv, TypeOK, Commit, Done
<1>3. Decided' /\ FailuresOpen'
  BY <1>2 DEF LInv, Decided, FailuresOpen, Idle
<1>4. u \in Created /\ Created' = Created
  BY CommitTries
<1>5. \A o \in Slots : requests'[o].kind = "failure" => requests'[o] = requests[o]
  BY <1>2 DEF Idle
<1>6. ASSUME NEW v \in Created' PROVE Bounded(v)'
  <2>1. Bounded(v) /\ v \in Created /\ v \in Users
    BY <1>4, <1>6 DEF LInv, Created
  <2>2. CASE tries'[v] = 0
    BY <1>1, <2>2, BoundedAnew
  <2>3. CASE tries'[v] = tries[v] /\ users'[v].failed = users[v].failed
    BY <1>5, <2>1, <2>3, BoundedStays
  <2>4. CASE /\ v = u /\ r.kind = "failure" /\ r.seen.failed \in Nat
             /\ r.seen.failed + 1 < MaxFailed
             /\ users'[u].failed = r.seen.failed + 1 /\ tries'[u] = tries[u] + 1
    <3>1. requests'[slot].kind = "idle"
      BY <1>2 DEF Idle
    <3> QED BY <1>2, <2>1, <2>4, <3>1, BoundedCounts DEF LInv
  <2> QED BY <2>1, <2>2, <2>3, <2>4, CommitTries
<1>7. NoneBefore'
  <2>1. \A v \in Users \ Created : tries'[v] = tries[v]
    BY CommitTries
  <2> QED BY <1>4, <2>1 DEF LInv, NoneBefore
<1> QED BY <1>1, <1>3, <1>6, <1>7 DEF LInv

\* A request that counts a wrong password has read an account that is open.
LEMMA BeginOpen ==
  ASSUME TypeOK, NEW slot \in Slots, Begin(slot), requests'[slot].kind = "failure"
  PROVE  requests'[slot].seen.locked # "future"
<1>1. ASSUME NEW kind, NEW u, NEW new, NEW b, Accept(slot, kind, u, new, b)
      PROVE  requests'[slot].kind = kind /\ requests'[slot].seen = users[u]
  BY <1>1 DEF Accept, TypeOK
<1>2. ASSUME NEW u, BeginFailure(slot, u) PROVE requests'[slot].seen.locked # "future"
  BY <1>1, <1>2 DEF BeginFailure, Open
<1>3. ASSUME NEW u, NEW b, BeginSignIn(slot, u, b) PROVE FALSE
  BY <1>1, <1>3 DEF BeginSignIn
<1>4. ASSUME NEW u, BeginCommand(slot, u) PROVE FALSE
  <2>1. ASSUME NEW kind \in {"reset", "temporary"}, BeginReset(slot, u, kind) PROVE FALSE
    BY <1>1, <2>1 DEF BeginReset
  <2>2. ASSUME BeginDisable(slot, u) PROVE FALSE
    BY <1>1, <2>2 DEF BeginDisable
  <2>3. ASSUME NEW role \in Roles, BeginSetRole(slot, u, role) PROVE FALSE
    BY <1>1, <2>3 DEF BeginSetRole
  <2>4. ASSUME BeginEnable(slot, u) \/ BeginUnlock(slot, u) PROVE FALSE
    BY <1>1, <2>4 DEF BeginEnable, BeginUnlock
  <2> QED BY <1>4, <2>1, <2>2, <2>3, <2>4 DEF BeginCommand
<1>5. ASSUME NEW b, BeginChange(slot, b) PROVE FALSE
  <2> DEFINE v == cookies[b].user
  <2>1. Accept(slot, "change", v, WithPassword(users[v], FALSE), b)
    BY <1>5 DEF BeginChange
  <2>2. requests'[slot].kind = "change"
    BY <2>1 DEF Accept, TypeOK
  <2> QED BY <2>2
<1>6. \/ \E u \in SignedIn : BeginFailure(slot, u) \/ \E b \in Browsers : BeginSignIn(slot, u, b)
      \/ \E u \in Users : BeginCommand(slot, u)
      \/ \E b \in Browsers : BeginChange(slot, b)
  BY DEF Begin
<1> QED BY <1>2, <1>3, <1>4, <1>5, <1>6

LEMMA InitLInv == Init => LInv
<1> SUFFICES ASSUME Init PROVE LInv
  OBVIOUS
<1>1. TypeOK
  BY InitTypeOK
<1>2. Decided /\ FailuresOpen
  BY DEF Init, Decided, FailuresOpen, Idle
<1>3. Created = {} /\ NoneBefore
  BY DEF Init, Created, NoneBefore
<1> QED BY <1>1, <1>2, <1>3 DEF LInv

LEMMA NextLInv == LInv /\ [Next]_vars => LInv'
<1> SUFFICES ASSUME LInv, [Next]_vars PROVE LInv'
  OBVIOUS
<1>0. TypeOK'
  BY NextTypeOK DEF LInv
<1> USE DEF ghosts
<1>a. ASSUME UNCHANGED <<users, tries, requests>> PROVE LInv'
  <2>1. Decided' /\ FailuresOpen' /\ NoneBefore'
    BY <1>a DEF LInv, Decided, FailuresOpen, NoneBefore, Created
  <2>2. ASSUME NEW u \in Created' PROVE Bounded(u)'
    <3>1. Bounded(u)
      BY <1>a DEF LInv, Created
    <3> QED BY <1>a, <3>1, BoundedStays
  <2> QED BY <1>0, <2>1, <2>2 DEF LInv
<1>1. CASE UNCHANGED vars
  BY <1>1, <1>a DEF vars
<1>2. ASSUME NEW slot \in Slots, Begin(slot) PROVE LInv'
  <2> PICK r : /\ AcceptedOK(r) /\ requests' = [requests EXCEPT ![slot] = r]
               /\ UNCHANGED <<users, cookies, ghosts>>
    BY <1>2, BeginAccepts DEF LInv
  <2>1. /\ \A s \in Slots \ {slot} : requests'[s] = requests[s]
        /\ requests'[slot] = r
    BY DEF LInv, TypeOK
  <2>2. Decided'
    BY <2>1 DEF LInv, Decided, AcceptedOK
  <2>3. FailuresOpen' /\ NoneBefore'
    BY <1>2, <2>1, BeginOpen DEF LInv, FailuresOpen, NoneBefore, Created
  <2>4. ASSUME NEW u \in Created' PROVE Bounded(u)'
    <3>1. Bounded(u) /\ tries' = tries /\ users' = users
      BY DEF LInv, Created
    <3>2. \A s \in Slots : requests'[s].kind = "failure" /\ requests'[s].user = u =>
            requests'[s] = requests[s] \/ requests'[s].seen = users[u]
      BY <2>1 DEF AcceptedOK
    <3> QED BY <3>1, <3>2, BoundedStays
  <2> QED BY <1>0, <2>2, <2>3, <2>4 DEF LInv
<1>3. ASSUME NEW slot \in Slots, Commit(slot) PROVE LInv'
  BY <1>3, CommitLInv
<1>4. ASSUME NEW slot \in Slots, Abandon(slot) PROVE LInv'
  <2>1. /\ UNCHANGED <<users, cookies, ghosts>>
        /\ \A s \in Slots \ {slot} : requests'[s] = requests[s]
        /\ requests'[slot] = Idle
    BY <1>4 DEF Abandon, Done, LInv, TypeOK
  <2>2. Decided' /\ FailuresOpen' /\ NoneBefore'
    BY <2>1 DEF LInv, Decided, FailuresOpen, NoneBefore, Created, Idle
  <2>3. ASSUME NEW u \in Created' PROVE Bounded(u)'
    <3>1. Bounded(u) /\ tries' = tries /\ users' = users
      BY <2>1 DEF LInv, Created
    <3>2. \A s \in Slots : requests'[s].kind = "failure" => requests'[s] = requests[s]
      BY <2>1 DEF Idle
    <3> QED BY <3>1, <3>2, BoundedStays
  <2> QED BY <1>0, <2>2, <2>3 DEF LInv
<1>5. ASSUME NEW new \in NewUsers, CreateUser(new) PROVE LInv'
  <2>1. /\ new.user \in Users /\ new.user \notin Created
        /\ \A v \in Users \ {new.user} : users'[v] = users[v]
        /\ UNCHANGED <<requests, tries>>
    BY <1>5, AccountsConstantsOK DEF CreateUser, Created, LInv, TypeOK
  <2>0. Created \subseteq Created'
    BY <2>1 DEF Created
  <2>2. Decided' /\ FailuresOpen' /\ NoneBefore'
    BY <2>0, <2>1 DEF LInv, Decided, FailuresOpen, NoneBefore
  <2>3. ASSUME NEW u \in Created' PROVE Bounded(u)'
    <3>1. CASE u = new.user
      BY <1>0, <2>1, <3>1, BoundedAnew DEF LInv, NoneBefore
    <3>2. CASE u # new.user
      <4>1. u \in Created /\ users'[u] = users[u]
        BY <2>1, <2>3, <3>2 DEF Created
      <4>2. Bounded(u)
        BY <4>1 DEF LInv
      <4> QED BY <2>1, <4>1, <4>2, BoundedStays
    <3> QED BY <3>1, <3>2
  <2> QED BY <1>0, <2>2, <2>3 DEF LInv
<1>6. ASSUME NEW b \in Browsers, EndSession(b) PROVE LInv'
  BY <1>6, <1>a DEF EndSession
<1>7. ASSUME NEW u \in Users, LockExpires(u) PROVE LInv'
  <2>1. /\ UNCHANGED <<cookies, requests, ghosts>> /\ u \in Created
        /\ users' = [users EXCEPT ![u].locked = "past"]
    BY <1>7 DEF LockExpires
  <2>2. users[u] \in UserRows
    BY <2>1, CreatedHasRow DEF LInv
  <2>3. [users[u] EXCEPT !.locked = "past"] \in UserRows
    BY <2>2 DEF UserRows, Locks
  <2>4. Created' = Created
    BY <2>1, <2>3, AccountsConstantsOK DEF Created, LInv, TypeOK
  <2>5. \A v \in Users : users'[v].failed = users[v].failed
    BY <2>1, <2>2 DEF LInv, TypeOK, UserRows
  <2>6. Decided' /\ FailuresOpen' /\ NoneBefore'
    BY <2>1, <2>4 DEF LInv, Decided, FailuresOpen, NoneBefore
  <2>7. ASSUME NEW v \in Created' PROVE Bounded(v)'
    <3>1. Bounded(v) /\ v \in Users
      BY <2>4, <2>7 DEF LInv, Created
    <3> QED BY <2>1, <2>5, <3>1, BoundedStays
  <2> QED BY <1>0, <2>6, <2>7 DEF LInv
<1> QED BY <1>1, <1>2, <1>3, <1>4, <1>5, <1>6, <1>7 DEF Next

\* Whatever is in flight, an account takes only so many wrong passwords in a row
\* before it is locked (record_failure).
THEOREM AccountsLockInTime == Spec => []LockedInTime
<1>1. LInv => LockedInTime
  BY BoundedLocks DEF LInv, LockedInTime
<1> QED BY <1>1, InitLInv, NextLInv, PTL DEF Spec
=============================================================================
