---------------------------- MODULE AdminAccess ----------------------------
(***************************************************************************)
(* What guards the admin panel: the second factor of a Super Admin         *)
(* (challenges in Redis, a TOTP credential and recovery codes in           *)
(* PostgreSQL), the reauthentication grants of sensitive actions, the      *)
(* login lockout, and the suspension of an account.  Challenges, grants    *)
(* and TOTP counters are numbers; the security fingerprint of the admin    *)
(* (password, roles, permissions) is the number of its changes.            *)
(***************************************************************************)
EXTENDS Integers, FiniteSets

CONSTANTS AdminWorkers,   \* requests in flight at a time
          MaxChallenges,  \* bound on the challenges issued
          MaxGrants,      \* bound on the grants issued
          MaxCounter,     \* TOTP counters 1..MaxCounter
          MaxChanges,     \* bound on the changes of the fingerprint, and on the resets
          Threshold       \* failures before a lockout

ASSUME AdminBounds == {MaxChallenges, MaxGrants, MaxCounter, MaxChanges} \subseteq Nat

Challenges == 1 .. MaxChallenges
Grants == 1 .. MaxGrants
Counters == 1 .. MaxCounter
AtRest == [op |-> "idle", c |-> 0, k |-> 0, gen |-> 0]

VARIABLES
  chal,      \* challenges: stage, whether unspent, and the fingerprint they were issued under
  nchal,     \* challenges issued so far
  cred,      \* admin_mfa_credentials: there or not, last_totp_counter, and the resets before it
  rec,       \* whether the admin's recovery code is unused
  fp,        \* the security fingerprint
  amake,     \* the requests in flight
  entered,   \* (history) logins made with each challenge
  spent,     \* (history) logins made with each counter of each credential, and with its recovery code (0)
  grant,     \* grants: whether there, listed under the actor, and their fingerprint
  gwork,     \* RevokeActor in flight: the grants it read
  acted,     \* (history) sensitive actions done with each grant
  lockout,   \* the failures counted for an account, and its lock
  account    \* users.status, users.ban_expires_at, and who suspended it

mfaVars == <<chal, nchal, cred, rec, amake, entered, spent>>
grantVars == <<grant, gwork, acted>>
adminVars == <<chal, nchal, cred, rec, fp, amake, entered, spent, grant, gwork, acted, lockout, account>>

AdminInit ==
  /\ chal = [c \in Challenges |-> [stage |-> "none", open |-> FALSE, fp |-> 0]]
  /\ nchal = 0
  /\ cred = [there |-> FALSE, counter |-> 0, gen |-> 0, revoke |-> FALSE]
  /\ rec = FALSE
  /\ fp = 0
  /\ amake = [w \in AdminWorkers |-> AtRest]
  /\ entered = [c \in Challenges |-> 0]
  /\ spent = [g \in 0 .. MaxChanges |-> [k \in Counters \cup {0} |-> 0]]
  /\ grant = [g \in Grants |-> [there |-> FALSE, listed |-> FALSE, made |-> FALSE, fp |-> 0]]
  /\ gwork = [pc |-> "idle", list |-> {}]
  /\ acted = [g \in Grants |-> 0]
  /\ lockout = [count |-> 0, locked |-> FALSE, checked |-> 0]
  /\ account = [status |-> "active", until |-> "none", by |-> "none"]

Next1(w, op, c, k) == amake' = [amake EXCEPT ![w] = [op |-> op, c |-> c, k |-> k, gen |-> cred.gen]]
Rest(w) == amake' = [amake EXCEPT ![w] = AtRest]

-----------------------------------------------------------------------------
(* The second factor. *)

Issue(stage) ==
  /\ nchal < MaxChallenges
  /\ nchal' = nchal + 1
  /\ chal' = [chal EXCEPT ![nchal + 1] = [stage |-> stage, open |-> TRUE, fp |-> fp]]

\* handleAdminLogin of a Super Admin while the policy is on: a challenge, whose
\* stage depends on whether a credential is there.
AdminLogin ==
  /\ Issue(IF cred.there THEN "verify" ELSE "enroll")
  /\ UNCHANGED <<cred, rec, fp, amake, entered, spent>>

\* validateAdminMFAChallenge reads the challenge and the admin's state.
Valid(c, stage) == chal[c].open /\ chal[c].stage = stage /\ chal[c].fp = fp

BeginEnrollment(w, c) ==
  /\ amake[w] = AtRest /\ Valid(c, "enroll") /\ ~cred.there
  /\ Next1(w, "enroll", c, 0)
  /\ UNCHANGED <<chal, nchal, cred, rec, fp, entered, spent>>

\* Spend the first challenge and issue the one that carries the new secret.
EnrollmentStart(w) ==
  /\ amake[w].op = "enroll" /\ nchal < MaxChallenges
  /\ Rest(w)
  /\ LET c == amake[w].c IN
       IF chal[c].open
       THEN /\ nchal' = nchal + 1
            /\ chal' = [chal EXCEPT ![c].open = FALSE,
                                    ![nchal + 1] = [stage |-> "enroll_verify", open |-> TRUE, fp |-> fp]]
       ELSE UNCHANGED <<chal, nchal>>
  /\ UNCHANGED <<cred, rec, fp, entered, spent>>

BeginEnrollmentVerify(w, c, k) ==
  /\ amake[w] = AtRest /\ Valid(c, "enroll_verify")
  /\ Next1(w, "enrollVerify", c, k)
  /\ UNCHANGED <<chal, nchal, cred, rec, fp, entered, spent>>

\* Spend the challenge, then insert the credential (its key refuses a second
\* one) with the counter just used and fresh recovery codes, and log in.
EnrollmentVerify(w) ==
  /\ amake[w].op = "enrollVerify"
  /\ Rest(w)
  /\ LET c == amake[w].c k == amake[w].k IN
       /\ chal' = [chal EXCEPT ![c].open = FALSE]
       /\ IF chal[c].open /\ ~cred.there
          THEN /\ cred' = [cred EXCEPT !.there = TRUE, !.counter = k]
               /\ rec' = TRUE
               /\ entered' = [entered EXCEPT ![c] = @ + 1]
               /\ spent' = [spent EXCEPT ![cred.gen][k] = @ + 1]
          ELSE UNCHANGED <<cred, rec, entered, spent>>
  /\ UNCHANGED <<nchal, fp>>

\* handleAdminMFAVerify: the factor is spent first, and the challenge after it.
BeginMFAVerify(w, c, k) ==
  /\ amake[w] = AtRest /\ Valid(c, "verify") /\ cred.there
  /\ Next1(w, "verify", c, k)
  /\ UNCHANGED <<chal, nchal, cred, rec, fp, entered, spent>>

\* An update of the counter that does not ask whether it grows.
SpendFactorAnyCounter(w) ==
  /\ amake[w].op = "verify"
  /\ LET c == amake[w].c k == amake[w].k IN
     IF cred.there THEN Next1(w, "consume", c, k) /\ cred' = [cred EXCEPT !.counter = k]
     ELSE Rest(w) /\ UNCHANGED cred
  /\ UNCHANGED <<chal, nchal, rec, fp, entered, spent>>

\* A counter must be greater than the last one; a recovery code (0) unused.
SpendFactor(w) ==
  /\ amake[w].op = "verify"
  /\ LET c == amake[w].c k == amake[w].k IN
     \/ /\ k # 0 /\ cred.there /\ cred.counter < k
        /\ cred' = [cred EXCEPT !.counter = k]
        /\ Next1(w, "consume", c, k)
        /\ UNCHANGED rec
     \/ /\ k = 0 /\ cred.there /\ rec
        /\ rec' = FALSE
        /\ Next1(w, "consume", c, k)
        /\ UNCHANGED cred
     \/ /\ ~(cred.there /\ IF k = 0 THEN rec ELSE cred.counter < k)
        /\ Rest(w)
        /\ UNCHANGED <<cred, rec>>
  /\ UNCHANGED <<chal, nchal, fp, entered, spent>>

MFAVerify(w) ==
  /\ amake[w].op = "consume"
  /\ Rest(w)
  /\ LET c == amake[w].c k == amake[w].k IN
       /\ chal' = [chal EXCEPT ![c].open = FALSE]
       /\ IF chal[c].open
          THEN /\ entered' = [entered EXCEPT ![c] = @ + 1]
               /\ spent' = [spent EXCEPT ![amake[w].gen][k] = @ + 1]
          ELSE UNCHANGED <<entered, spent>>
  /\ UNCHANGED <<nchal, cred, rec, fp>>

\* handleAdminMFAReset deletes the credential, its codes with it, ...
MFAReset ==
  /\ cred.there /\ cred.gen < MaxChanges
  /\ cred' = [there |-> FALSE, counter |-> 0, gen |-> cred.gen + 1, revoke |-> TRUE]
  /\ rec' = FALSE
  /\ UNCHANGED <<chal, nchal, fp, amake, entered, spent>>

\* ... and then scans for the admin's challenges: what a request has read of
\* one stays in its hands.
RevokeChallenges ==
  /\ cred.revoke
  /\ cred' = [cred EXCEPT !.revoke = FALSE]
  /\ chal' = [c \in Challenges |-> [chal[c] EXCEPT !.open = FALSE]]
  /\ UNCHANGED <<nchal, rec, fp, amake, entered, spent>>

\* A new password or new roles.
FingerprintChanges ==
  /\ fp < MaxChanges
  /\ fp' = fp + 1
  /\ UNCHANGED <<chal, nchal, cred, rec, amake, entered, spent>>

MFANext ==
  \/ AdminLogin \/ MFAReset \/ RevokeChallenges \/ FingerprintChanges
  \/ \E w \in AdminWorkers :
       \/ EnrollmentStart(w) \/ EnrollmentVerify(w) \/ SpendFactor(w) \/ MFAVerify(w)
       \/ \E c \in Challenges :
            \/ BeginEnrollment(w, c)
            \/ \E k \in Counters : BeginEnrollmentVerify(w, c, k)
            \/ \E k \in Counters \cup {0} : BeginMFAVerify(w, c, k)

\* A challenge, a TOTP counter and a recovery code each admit a Super Admin at
\* most once, although two requests may hold the same one when they start.
FactorSpentOnce ==
  /\ \A c \in Challenges : entered[c] <= 1
  /\ \A g \in 0 .. MaxChanges, k \in Counters \cup {0} : spent[g][k] <= 1

-----------------------------------------------------------------------------
(* Reauthentication grants. *)

\* handleAdminReauthenticate, after the password: the grant's key, ...
IssueGrant(g) ==
  /\ ~grant[g].made
  /\ grant' = [grant EXCEPT ![g] = [there |-> TRUE, listed |-> FALSE, made |-> TRUE, fp |-> fp]]
  /\ UNCHANGED <<fp, gwork, acted>>

\* ... and its place in the actor's set.
ListGrant(g) ==
  /\ grant[g].made /\ ~grant[g].listed /\ grant[g].there
  /\ grant' = [grant EXCEPT ![g].listed = TRUE]
  /\ UNCHANGED <<fp, gwork, acted>>

\* consumeSensitiveGrant: the grant is spent whatever its bindings say, and
\* the action runs when they match the admin's state now.
ConsumeGrant(g) ==
  /\ grant[g].there
  /\ grant' = [grant EXCEPT ![g].there = FALSE, ![g].listed = FALSE]
  /\ acted' = [acted EXCEPT ![g] = IF grant[g].fp = fp THEN @ + 1 ELSE @]
  /\ UNCHANGED <<fp, gwork>>

\* handleUpdateUserRoles changes the fingerprint, ...
UpdateUserRoles ==
  /\ gwork.pc = "idle" /\ fp < MaxChanges
  /\ fp' = fp + 1
  /\ gwork' = [gwork EXCEPT !.pc = "committed"]
  /\ UNCHANGED <<grant, acted>>

\* ... and RevokeActor reads the actor's set, and deletes what it read.
RevokeActor ==
  \/ /\ gwork.pc = "committed"
     /\ gwork' = [pc |-> "read", list |-> {g \in Grants : grant[g].listed}]
     /\ UNCHANGED <<fp, grant, acted>>
  \/ /\ gwork.pc = "read"
     /\ gwork' = [pc |-> "idle", list |-> {}]
     /\ grant' = [g \in Grants |-> [grant[g] EXCEPT !.there = @ /\ g \notin gwork.list, !.listed = FALSE]]
     /\ UNCHANGED <<fp, acted>>

GrantNext ==
  \/ \E g \in Grants : IssueGrant(g) \/ ListGrant(g) \/ ConsumeGrant(g)
  \/ UpdateUserRoles \/ RevokeActor

\* A grant pays for at most one sensitive action, whatever issues, listings,
\* uses and revocations interleave, even when the grant escaped the revocation
\* because it was not listed yet.
GrantPaysOnce == \A g \in Grants : acted[g] <= 1

-----------------------------------------------------------------------------
(* The lockout of an account, and its suspension. *)

\* handleLogin and handleAdminLogin: the lock is looked at first, ...
CheckLockout ==
  /\ ~lockout.locked /\ lockout.checked < 2
  /\ lockout' = [lockout EXCEPT !.checked = @ + 1]
  /\ UNCHANGED account

\* ... a wrong password counts, and the Threshold-th locks, ...
LoginFails ==
  /\ lockout.checked > 0
  /\ LET n == lockout.count + 1 IN
       lockout' = [count |-> IF n > Threshold THEN Threshold ELSE n,
                   locked |-> lockout.locked \/ n >= Threshold, checked |-> lockout.checked - 1]
  /\ UNCHANGED account

\* ... and a right one clears the counter and the lock.
LoginSucceeds ==
  /\ lockout.checked > 0
  /\ lockout' = [count |-> 0, locked |-> FALSE, checked |-> lockout.checked - 1]
  /\ UNCHANGED account

\* The lock ends before the counter does (Retention is not below LockFor).
LockoutExpires ==
  /\ lockout.locked
  /\ lockout' \in {[lockout EXCEPT !.locked = FALSE], [lockout EXCEPT !.locked = FALSE, !.count = 0]}
  /\ UNCHANGED account

\* handleBanUser writes status and ban_expires_at together.
BanUser(forever) ==
  /\ account' = [status |-> "suspended", until |-> IF forever THEN "none" ELSE "future",
                 by |-> IF forever THEN "permanentBan" ELSE "ban"]
  /\ UNCHANGED lockout

\* handleUpdateUserStatus writes status alone.
UpdateUserStatus(s) ==
  /\ account.status # s
  /\ account' = [account EXCEPT !.status = s, !.by = IF s = "active" THEN "none" ELSE "status"]
  /\ UNCHANGED lockout

UnbanUser ==
  /\ account.status = "suspended"
  /\ account' = [status |-> "active", until |-> "none", by |-> "none"]
  /\ UNCHANGED lockout

BanEnds ==
  /\ account.until = "future"
  /\ account' = [account EXCEPT !.until = "past"]
  /\ UNCHANGED lockout

\* banExpirySweeper.sweep
SweepBans ==
  /\ account.status = "suspended" /\ account.until = "past"
  /\ account' = [status |-> "active", until |-> "none", by |-> "none"]
  /\ UNCHANGED lockout

AccountNext ==
  \/ CheckLockout \/ LoginFails \/ LoginSucceeds \/ LockoutExpires
  \/ \E f \in BOOLEAN : BanUser(f)
  \/ \E s \in {"active", "suspended"} : UpdateUserStatus(s)
  \/ UnbanUser \/ BanEnds \/ SweepBans

\* The sweeper never lifts a permanent ban, whatever bans and changes of the
\* status came before it: ban_expires_at may hold the end of an old ban.
PermanentBanStays == account.by = "permanentBan" => account.status = "suspended" /\ account.until = "none"
=============================================================================
