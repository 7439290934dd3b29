------------------------------ MODULE Accounts ------------------------------
(***************************************************************************)
(* User accounts: signing in, changing one's password, and the commands of *)
(* app/scripts/users.py, which run in processes of their own.              *)
(*                                                                         *)
(* A request or a command is two steps, the read of the user row with the  *)
(* decision, and the commit, which saves the columns that differ from the  *)
(* row read.  The reset command waits for a password typed between the     *)
(* two.  A password is abstracted to being right or wrong for the row read.*)
(***************************************************************************)
EXTENDS Sessions, Integers, FiniteSets, Combinatorics

CONSTANTS
  Users,
  SignedIn,       \* the users at whose account somebody tries to sign in
  NewUsers,       \* what the create command submits
  Browsers,
  Slots,          \* requests and commands in flight
  MaxFailed,      \* MAX_FAILED_LOGINS
  MaxBumps,       \* bound: password resets, disablings and role changes of a user
  MaxTries        \* bound: wrong passwords in a row

Roles == {"admin", "employee"}

\* locked_until: never set, in the future, or in the past.
Locks == {"none", "future", "past"}

UserRows == [role: Roles, active: BOOLEAN, version: Nat, must: BOOLEAN,
             failed: Nat, locked: Locks]

ASSUME AccountsConstantsOK ==
  /\ MaxFailed \in Nat \ {0} /\ MaxBumps \in Nat /\ MaxTries \in Nat
  /\ NewUsers \subseteq [user: Users, role: Roles, must: BOOLEAN]
  /\ SignedIn \subseteq Users /\ IsFiniteSet(Users) /\ IsFiniteSet(Slots)
  /\ Null \notin Users \cup Browsers \cup UserRows
  /\ Null \notin [user: Users, version: Nat, bumps: Nat]

VARIABLES
  users,      \* the users rows; Null is a user not created yet
  cookies,    \* what the session cookie of each browser holds: user, version,
              \* and (ghost) how many bumps the user had had when the password
              \* was found right
  requests,   \* what each request in flight has read and will save
  bumps,      \* ghost: resets, disablings and role changes of each user
  tries,      \* ghost: wrong passwords since the last right one, reset or lock
  temporary,  \* ghost: users whose password is a temporary one
  raced,      \* ghost: users for whom two bumps, or a bump and a sign-in,
              \* overlapped
  crowded     \* ghost: a command that may take away an admin overlapped one
              \* that changes who is an admin

ghosts == <<bumps, tries, temporary, raced, crowded>>
vars == <<users, cookies, requests, ghosts>>

Created == {u \in Users : users[u] # Null}
Idle == [kind |-> "idle"]

Init ==
  /\ users     = [u \in Users |-> Null]
  /\ cookies   = [b \in Browsers |-> Null]
  /\ requests  = [s \in Slots |-> Idle]
  /\ bumps     = [u \in Users |-> 0]
  /\ tries     = [u \in Users |-> 0]
  /\ temporary = {}
  /\ raced     = {}
  /\ crowded   = FALSE

------------------------------------------------------------------------------
(* user_service.py: rows before and after *)

\* Fault: the administrators are counted whether active or not.
AnyAdmins == {u \in Created : users[u].role = "admin"}

ActiveAdmins == {u \in Created : users[u].role = "admin" /\ users[u].active}

\* _would_remove_last_admin
IsLastAdmin(row) ==
  row.role = "admin" /\ row.active /\ Cardinality(ActiveAdmins) <= 1

\* Fault: the version stays, so sessions go on.
NoBump(row) == row

Bump(row) == [row EXCEPT !.version = @ + 1]

\* unlock_user; also what a right password does
Unlocked(row) == [row EXCEPT !.failed = 0, !.locked = "none"]

\* Fault: a reset does not ask for a change.
KeepMust(row, must) == Bump(Unlocked(row))

\* set_password
WithPassword(row, must) == [Bump(Unlocked(row)) EXCEPT !.must = must]

Disabled(row)     == [Bump(row) EXCEPT !.active = FALSE]
Enabled(row)      == [row EXCEPT !.active = TRUE]
InRole(row, role) == [Bump(row) EXCEPT !.role = role]

\* Fault: the count is compared before it is incremented.
FailedLate(row) ==
  IF row.failed >= MaxFailed
  THEN [row EXCEPT !.failed = 0, !.locked = "future"]
  ELSE [row EXCEPT !.failed = @ + 1]

\* record_failure
Failed(row) ==
  IF row.failed + 1 >= MaxFailed
  THEN [row EXCEPT !.failed = 0, !.locked = "future"]
  ELSE [row EXCEPT !.failed = @ + 1]

Saved(seen, new, row) ==
  [role    |-> Save(seen.role,    new.role,    row.role),
   active  |-> Save(seen.active,  new.active,  row.active),
   version |-> Save(seen.version, new.version, row.version),
   must    |-> Save(seen.must,    new.must,    row.must),
   failed  |-> Save(seen.failed,  new.failed,  row.failed),
   locked  |-> Save(seen.locked,  new.locked,  row.locked)]

------------------------------------------------------------------------------
(* Requests *)

\* A request or command reads user u and will save new; b is the browser, if
\* any, that gets a session of it.
Accept(slot, kind, u, new, b) ==
  /\ requests[slot] = Idle
  /\ requests' = [requests EXCEPT ![slot] =
       [kind |-> kind, user |-> u, seen |-> users[u], new |-> new, browser |-> b,
        bumps |-> bumps[u]]]
  /\ UNCHANGED <<users, cookies, ghosts>>

Done(slot) == requests' = [requests EXCEPT ![slot] = Idle]

\* A refused command, an exception or a killed process: nothing is saved.
Abandon(slot) ==
  /\ requests[slot] # Idle
  /\ Done(slot)
  /\ UNCHANGED <<users, cookies, ghosts>>

InFlight(u, slot, kinds) ==
  \E o \in Slots \ {slot} : requests[o].kind \in kinds /\ requests[o].user = u

Bumping  == {"reset", "temporary", "change", "disable", "role"}
Removing == {"disable", "role"}
Appointing == Removing \cup {"enable"}

------------------------------------------------------------------------------
(* Signing in: authenticate, login *)

Open(row) == row.active /\ row.locked # "future"

BeginSignIn(slot, u, b) ==
  /\ u \in Created /\ Open(users[u])
  /\ Accept(slot, "signin", u, Unlocked(users[u]), b)

\* A wrong password counts only on an active account that is not locked;
\* change_password counts a wrong current password the same way.
BeginFailure(slot, u) ==
  /\ u \in Created /\ Open(users[u])
  /\ tries[u] < MaxTries
  /\ Accept(slot, "failure", u, Failed(users[u]), Null)

\* _user_from_session: whether the cookie is good for a request.
Honoured(b) ==
  /\ cookies[b] # Null
  /\ LET row == users[cookies[b].user] IN
       row.active /\ row.version = cookies[b].version

\* change_password: open to a user who must change it.
BeginChange(slot, b) ==
  /\ Honoured(b)
  /\ LET u == cookies[b].user IN
     /\ users[u].locked # "future" /\ bumps[u] < MaxBumps
     /\ Accept(slot, "change", u, WithPassword(users[u], FALSE), b)

\* Fault: only the version is taken out of the cookie.
ClearVersion(b) ==
  /\ cookies[b] # Null
  /\ cookies' = [cookies EXCEPT ![b].version = Null]
  /\ UNCHANGED <<users, requests, ghosts>>

\* logout, the end of SESSION_MAX_HOURS or SESSION_IDLE_MINUTES, or a request
\* that require_user does not honour: the cookie is cleared.
EndSession(b) ==
  /\ cookies[b] # Null
  /\ cookies' = [cookies EXCEPT ![b] = Null]
  /\ UNCHANGED <<users, requests, ghosts>>

------------------------------------------------------------------------------
(* The commands of scripts/users.py *)

\* The unique constraint refuses a second user of the name.
CreateUser(new) ==
  /\ users[new.user] = Null
  /\ users' = [users EXCEPT ![new.user] =
       [role |-> new.role, active |-> TRUE, version |-> 1, must |-> new.must,
        failed |-> 0, locked |-> "none"]]
  /\ temporary' = IF new.must THEN temporary \cup {new.user} ELSE temporary
  /\ UNCHANGED <<cookies, requests, bumps, tries, raced, crowded>>

\* reset-password, with a password typed or, with --temporary, made up.
BeginReset(slot, u, kind) ==
  Accept(slot, kind, u, WithPassword(users[u], kind = "temporary"), Null)

BeginDisable(slot, u) ==
  /\ ~IsLastAdmin(users[u])
  /\ Accept(slot, "disable", u, Disabled(users[u]), Null)

BeginSetRole(slot, u, role) ==
  /\ role # "admin" => ~IsLastAdmin(users[u])
  /\ Accept(slot, "role", u, InRole(users[u], role), Null)

BeginEnable(slot, u) == Accept(slot, "enable", u, Enabled(users[u]), Null)
BeginUnlock(slot, u) == Accept(slot, "unlock", u, Unlocked(users[u]), Null)

BeginCommand(slot, u) ==
  /\ u \in Created
  /\ \/ /\ bumps[u] < MaxBumps
        /\ \/ \E kind \in {"reset", "temporary"} : BeginReset(slot, u, kind)
           \/ BeginDisable(slot, u)
           \/ \E role \in Roles : BeginSetRole(slot, u, role)
     \/ BeginEnable(slot, u)
     \/ BeginUnlock(slot, u)

------------------------------------------------------------------------------
(* The commit, of any of them *)

\* start_session runs after the commit, so it reads the row anew.
StartSession(r) ==
  cookies' = IF r.browser = Null THEN cookies
             ELSE [cookies EXCEPT ![r.browser] =
                     [user |-> r.user, version |-> users'[r.user].version,
                      bumps |-> IF r.kind = "signin" THEN r.bumps ELSE bumps'[r.user]]]

CountTries(r) ==
  tries' = [tries EXCEPT ![r.user] =
    CASE r.kind = "failure" ->
           IF users'[r.user].locked = "future" THEN 0 ELSE @ + 1
      [] r.kind \in {"signin", "change", "reset", "temporary", "unlock"} -> 0
      [] OTHER -> @]

Commit(slot) ==
  /\ requests[slot] # Idle
  /\ LET r == requests[slot]  u == r.user IN
     /\ users' = [users EXCEPT ![u] = Saved(r.seen, r.new, @)]
     /\ bumps' = [bumps EXCEPT ![u] = IF r.kind \in Bumping THEN @ + 1 ELSE @]
     /\ StartSession(r)
     /\ CountTries(r)
     /\ temporary' = CASE r.kind = "temporary"           -> temporary \cup {u}
                       [] r.kind \in {"reset", "change"} -> temporary \ {u}
                       [] OTHER                          -> temporary
     /\ raced' = IF r.kind \in Bumping /\ InFlight(u, slot, Bumping \cup {"signin"})
                 THEN raced \cup {u} ELSE raced
     /\ crowded' = (crowded \/ /\ r.kind \in Appointing
                               /\ \E v \in Users : InFlight(v, slot, Removing))
  /\ Done(slot)

\* Fifteen minutes pass.
LockExpires(u) ==
  /\ u \in Created /\ users[u].locked = "future"
  /\ users' = [users EXCEPT ![u].locked = "past"]
  /\ UNCHANGED <<cookies, requests, ghosts>>

Begin(slot) ==
  \/ \E u \in SignedIn : BeginFailure(slot, u) \/ \E b \in Browsers : BeginSignIn(slot, u, b)
  \/ \E u \in Users : BeginCommand(slot, u)
  \/ \E b \in Browsers : BeginChange(slot, b)

Next ==
  \/ \E slot \in Slots : Begin(slot) \/ Commit(slot) \/ Abandon(slot)
  \/ \E new \in NewUsers : CreateUser(new)
  \/ \E b \in Browsers : EndSession(b)
  \/ \E u \in Users : LockExpires(u)

Spec == Init /\ [][Next]_vars
------------------------------------------------------------------------------
RequestKinds == Bumping \cup {"signin", "failure", "enable", "unlock"}

\* The type invariant: rows have their columns, cookies and requests name users
\* that exist (models/user.py).
TypeOK ==
  /\ users \in [Users -> OrNull(UserRows)]
  /\ cookies \in [Browsers -> OrNull([user: Created, version: Nat, bumps: Nat])]
  /\ requests \in [Slots -> {Idle} \cup
       [kind: RequestKinds, user: Created, seen: UserRows, new: UserRows,
        browser: OrNull(Browsers), bumps: Nat]]
  /\ bumps \in [Users -> Nat] /\ tries \in [Users -> Nat]
  /\ temporary \subseteq Created /\ raced \subseteq Created /\ crowded \in BOOLEAN

------------------------------------------------------------------------------
(* Properties *)

Administered == \E u \in Created : users[u].role = "admin" /\ users[u].active

\* An application that has an active administrator keeps one, through any
\* sequence of commands, whatever the web server does meanwhile, unless a
\* command that could take one away was decided before another that disables,
\* enables or gives a role, and saved after it (_would_remove_last_admin).
AdminRemains ==
  [][Administered => Administered' \/ crowded']_vars

\* Resetting a password, disabling an account or changing a role ends the
\* sessions opened before it, for good, even when the account is enabled again:
\* the password of an honoured session was found right after the last of them,
\* unless two of them, or one and a sign-in, overlapped (session_version,
\* _user_from_session).
BumpsEndSessions ==
  \A b \in Browsers :
    Honoured(b) /\ cookies[b].user \notin raced =>
      cookies[b].bumps = bumps[cookies[b].user]

\* A user with a temporary password has to change it before anything else, and
\* only then, unless two changes of the password overlapped (set_password).
TemporaryMustChange ==
  \A u \in Created \ raced : users[u].must <=> u \in temporary

\* The fewest wrong passwords that are sure to lock an account.  A sign-in that
\* has read the counter sets it back to what it read plus one, whatever was
\* counted since: with n requests in flight, counting to MaxFailed takes as many
\* wrong passwords as there are ways to choose n out of MaxFailed + n - 1.
Guesses ==
  choose(MaxFailed + Cardinality(Slots) - 1, Cardinality(Slots))

\* Overlapping sign-ins lose increments of the counter, but no number of them
\* in flight lets somebody guess for ever: whatever else is in flight, so many
\* wrong passwords in a row lock the account (record_failure).
LockedInTime ==
  \A u \in Created : tries[u] < Guesses
=============================================================================
