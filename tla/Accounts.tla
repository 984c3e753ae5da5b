------------------------------ MODULE Accounts ------------------------------
(***************************************************************************)
(* The sessions of one user, and the user's second factor.                 *)
(*                                                                         *)
(* A session is a hash in Redis, and its id is a member of the user's set. *)
(* Requests (logins, refreshes, authenticated calls, revocations) run the  *)
(* Redis commands of SessionStore one after the other; every command, or   *)
(* pipeline, is one step here, so the steps of two requests interleave.    *)
(* Session ids are random in the code; numbers stand for them here, in the *)
(* order of their created_at.  A refresh token is a number too.            *)
(***************************************************************************)
EXTENDS Integers, FiniteSets

CONSTANTS Workers,       \* requests in flight at a time
          MaxSessions,   \* maxSessionsPerUser
          MaxLogins,     \* bound on the sessions ever created
          MaxTokens,     \* bound on the refresh tokens ever issued
          MaxSecrets,    \* bound on the TOTP secrets ever generated
          MaxUsers       \* bound on the rows of table users

ASSUME AccountsBounds == MaxLogins \in Nat /\ MaxUsers \in Nat

SessionIds == 1 .. MaxLogins
Doing(op, s, ids) == [op |-> op, sid |-> s, list |-> ids]
Idle == Doing("idle", 0, {})
NoSession == [uid |-> FALSE, there |-> FALSE, rt |-> 0]

VARIABLES
  sess,     \* the session hashes: whether there, with a user_id, and the refresh token stored
  members,  \* the user's set of session ids
  ulock,    \* lock:user:<id>
  work,     \* the requests in flight
  logins,   \* sessions created so far
  issued,   \* refresh tokens handed to clients, with their sessions
  revoked,  \* (history) the sessions that were deleted or expired
  totp,     \* users.totp_secret, users.totp_enabled; NoSecret is 0
  enrol,    \* handle2FAVerify in flight: the secret it read
  tickets,  \* 2FA login tickets and the logins made with them
  secrets,  \* secrets generated so far
  users,    \* the rows of table users, with the identities each owns
  rwork,    \* registrations in flight
  entries,  \* (history) logins of the registrations: who, and by which identity
  owned,    \* (history) which identities each user has owned so far
  raced     \* (history) a setup or a disable ran while a verification was in flight

sessionVars == <<sess, members, ulock, work, logins, issued, revoked>>
regVars == <<users, rwork, entries, owned>>
totpVars == <<totp, enrol, tickets, secrets, raced>>
accountVars == <<sess, members, ulock, work, logins, issued, revoked,
                 totp, enrol, tickets, secrets, raced, users, rwork, entries, owned>>

-----------------------------------------------------------------------------
(* SessionStore. *)

SessionInit ==
  /\ sess = [s \in SessionIds |-> NoSession]
  /\ members = {}
  /\ ulock = FALSE
  /\ work = [w \in Workers |-> Idle]
  /\ logins = 0
  /\ issued = {}
  /\ revoked = {}

Go(w, r) == work' = [work EXCEPT ![w] = r]
Done(w) == work' = [work EXCEPT ![w] = Idle]

\* The hashes are gone; the user's set is the caller's business.
Deleted(ids) ==
  /\ sess' = [s \in SessionIds |-> IF s \in ids THEN NoSession ELSE sess[s]]
  /\ revoked' = revoked \cup {s \in ids : sess[s].there}

\* Delete: HGET user_id, DEL, SREM when the hash had a user.
Delete(s) ==
  /\ Deleted({s})
  /\ members' = IF sess[s].uid THEN members \ {s} ELSE members

\* A login whose password (or ticket, or OAuth account) was accepted calls
\* Create, which takes the user's lock, or goes on without it after three attempts.
BeginLogin(w) ==
  /\ work[w] = Idle /\ logins < MaxLogins
  /\ \/ /\ ~ulock
        /\ ulock' = TRUE
        /\ Go(w, Doing("list", 0, {}))
     \/ /\ ulock
        /\ Go(w, Doing("listUnlocked", 0, {}))
        /\ UNCHANGED ulock
  /\ UNCHANGED <<sess, members, logins, issued, revoked>>

\* The lock's five seconds pass.
UserLockExpires ==
  /\ ulock
  /\ ulock' = FALSE
  /\ UNCHANGED <<sess, members, work, logins, issued, revoked>>

\* The members beyond the cap, oldest first; ids whose hash has expired are not counted.
Evicted ==
  LET alive == {s \in members : sess[s].uid}
      n == Cardinality(alive) - MaxSessions + 1
  IN IF Cardinality(members) < MaxSessions THEN {}
     ELSE {s \in alive : Cardinality({t \in alive : t < s}) < n}

ListSessions(w) ==
  /\ work[w].op \in {"list", "listUnlocked"}
  /\ Go(w, Doing(IF work[w].op = "list" THEN "create" ELSE "createUnlocked", 0, Evicted))
  /\ UNCHANGED <<sess, members, ulock, logins, issued, revoked>>

\* The eviction pipeline, then the pipeline that writes the session and its
\* membership, then the deferred release of the lock, held or not by now.
CreateSession(w) ==
  /\ work[w].op \in {"create", "createUnlocked"} /\ logins < MaxLogins
  /\ LET s == logins + 1 IN
       /\ logins' = s
       /\ sess' = [t \in SessionIds |->
            IF t = s THEN [uid |-> TRUE, there |-> TRUE, rt |-> 0]
            ELSE IF t \in work[w].list THEN NoSession ELSE sess[t]]
       /\ members' = (members \ work[w].list) \cup {s}
       /\ revoked' = revoked \cup {t \in work[w].list : sess[t].there}
       /\ Go(w, Doing("refresh", s, {}))
  /\ ulock' = (ulock /\ work[w].op = "createUnlocked")
  /\ UNCHANGED issued

\* handleRefresh: the token is looked up in its session; one that is not the
\* stored one deletes the session.
ValidateRefreshToken(w, i) ==
  /\ work[w] = Idle /\ sess[i.sid].there
  /\ IF sess[i.sid].rt = i.tok
     THEN /\ Go(w, Doing("refresh", i.sid, {}))
          /\ UNCHANGED <<sess, members, revoked>>
     ELSE /\ Delete(i.sid)
          /\ UNCHANGED work
  /\ UNCHANGED <<ulock, logins, issued>>

\* SessionStore.Refresh asks whether the hash exists; login deletes the session when not.
RefreshExists(w) ==
  /\ work[w].op = "refresh"
  /\ IF sess[work[w].sid].there
     THEN /\ Go(w, Doing("store", work[w].sid, {}))
          /\ UNCHANGED <<sess, members, revoked>>
     ELSE /\ Delete(work[w].sid)
          /\ Done(w)
  /\ UNCHANGED <<ulock, logins, issued>>

\* A Refresh that saves the whole session back.
RefreshSavesSession(w) ==
  /\ work[w].op = "store" /\ Cardinality(issued) < MaxTokens
  /\ LET tok == Cardinality(issued) + 1 s == work[w].sid IN
       /\ sess' = [sess EXCEPT ![s] = [uid |-> TRUE, there |-> TRUE, rt |-> tok]]
       /\ issued' = issued \cup {[sid |-> s, tok |-> tok]}
  /\ Done(w)
  /\ UNCHANGED <<members, ulock, logins, revoked>>

\* ... and writes refresh_token and expires_at into the hash, which the write
\* creates when it is gone by now; the client gets the token.
RefreshStores(w) ==
  /\ work[w].op = "store" /\ Cardinality(issued) < MaxTokens
  /\ LET tok == Cardinality(issued) + 1 s == work[w].sid IN
       /\ sess' = [sess EXCEPT ![s].there = TRUE, ![s].rt = tok]
       /\ issued' = issued \cup {[sid |-> s, tok |-> tok]}
  /\ Done(w)
  /\ UNCHANGED <<members, ulock, logins, revoked>>

\* RequireAuth: the session must be there and belong to the user of the token.
RequireAuth(w, s) ==
  /\ work[w] = Idle /\ sess[s].uid
  /\ Go(w, Doing("seen", s, {}))
  /\ UNCHANGED <<sess, members, ulock, logins, issued, revoked>>

\* UpdateLastSeen: EXISTS, then HSET last_seen_at.
UpdateLastSeen(w) ==
  \/ /\ work[w].op = "seen"
     /\ IF sess[work[w].sid].there THEN Go(w, Doing("touch", work[w].sid, {})) ELSE Done(w)
     /\ UNCHANGED <<sess, members, ulock, logins, issued, revoked>>
  \/ /\ work[w].op = "touch"
     /\ sess' = [sess EXCEPT ![work[w].sid].there = TRUE]
     /\ Done(w)
     /\ UNCHANGED <<members, ulock, logins, issued, revoked>>

\* POST /logout with a session that authenticates: its token is blacklisted, and the session deleted.
Logout(s) ==
  /\ sess[s].uid
  /\ Delete(s)
  /\ UNCHANGED <<ulock, work, logins, issued>>

\* DELETE /sessions/{id}: another session of the same user.
DeleteSession(current, s) ==
  /\ s # current /\ sess[current].uid /\ sess[s].uid
  /\ Delete(s)
  /\ UNCHANGED <<ulock, work, logins, issued>>

\* DELETE /sessions?all=true, or a forgotten password: DeleteAllForUser reads the set ...
BeginDeleteAll(w) ==
  /\ work[w] = Idle /\ members # {}
  /\ Go(w, Doing("deleteAll", 0, members))
  /\ UNCHANGED <<sess, members, ulock, logins, issued, revoked>>

\* ... and deletes what it read, and the set.
DeleteAllForUser(w) ==
  /\ work[w].op = "deleteAll"
  /\ Deleted(work[w].list)
  /\ members' = {}
  /\ Done(w)
  /\ UNCHANGED <<ulock, logins, issued>>

\* A ban, a role change or a termination by an admin reads the set too, ...
TerminateUserSessions(w) ==
  /\ work[w] = Idle /\ members # {}
  /\ Go(w, Doing("purge", 0, members))
  /\ UNCHANGED <<sess, members, ulock, logins, issued, revoked>>

\* ... deletes the sessions one by one, and the set last.
InvalidateAllUserSessions(w) ==
  /\ work[w].op = "purge"
  /\ \/ \E s \in work[w].list :
          /\ Deleted({s})
          /\ Go(w, Doing("purge", 0, work[w].list \ {s}))
          /\ UNCHANGED members
     \/ /\ work[w].list = {}
        /\ members' = {}
        /\ Done(w)
        /\ UNCHANGED <<sess, revoked>>
  /\ UNCHANGED <<ulock, logins, issued>>

\* A changed password, or DELETE /sessions: every session but the caller's.
BeginDeleteOthers(w, current) ==
  /\ work[w] = Idle /\ sess[current].uid
  /\ Go(w, Doing("deleteOthers", 0, members \ {current}))
  /\ UNCHANGED <<sess, members, ulock, logins, issued, revoked>>

DeleteAllExcept(w) ==
  /\ work[w].op = "deleteOthers"
  /\ Deleted(work[w].list)
  /\ members' = members \ work[w].list
  /\ Done(w)
  /\ UNCHANGED <<ulock, logins, issued>>

\* Redis expires a hash; the id stays in the set.
SessionExpires(s) ==
  /\ sess[s].uid
  /\ Deleted({s})
  /\ UNCHANGED <<members, ulock, work, logins, issued>>

\* GET /sessions removes the stale ids it meets.
ListUserSessions ==
  /\ \E s \in members : ~sess[s].there
  /\ members' = {s \in members : sess[s].there}
  /\ UNCHANGED <<sess, ulock, work, logins, issued, revoked>>

SessionNext ==
  \/ \E w \in Workers :
       \/ BeginLogin(w) \/ ListSessions(w) \/ CreateSession(w)
       \/ \E i \in issued : ValidateRefreshToken(w, i)
       \/ RefreshExists(w) \/ RefreshStores(w)
       \/ \E s \in SessionIds : RequireAuth(w, s) \/ BeginDeleteOthers(w, s)
       \/ UpdateLastSeen(w)
       \/ BeginDeleteAll(w) \/ DeleteAllForUser(w) \/ DeleteAllExcept(w)
       \/ TerminateUserSessions(w) \/ InvalidateAllUserSessions(w)
  \/ UserLockExpires \/ ListUserSessions
  \/ \E s \in SessionIds : Logout(s) \/ SessionExpires(s) \/ \E c \in SessionIds : DeleteSession(c, s)

\* A session that was deleted, evicted or expired never authenticates its user
\* again, although Refresh and UpdateLastSeen write into a hash that another
\* request may have deleted since they asked for it, and so bring it back.
RevokedStaysRevoked == \A s \in revoked : ~sess[s].uid

-----------------------------------------------------------------------------
(* The second factor. *)

TotpInit ==
  /\ totp = [secret |-> 0, enabled |-> FALSE, verified |-> 0]
  /\ enrol = [w \in Workers |-> 0]
  /\ tickets = [open |-> 0, used |-> 0, made |-> 0]
  /\ secrets = 0
  /\ raced = FALSE

Racing == \E w \in Workers : enrol[w] # 0

\* handle2FASetup: totp_enabled is read from a replica, and the secret then
\* stored without looking at it again.
Setup2FA(seenEnabled) ==
  /\ ~seenEnabled /\ secrets < MaxSecrets
  /\ secrets' = secrets + 1
  /\ totp' = [secret |-> secrets + 1, enabled |-> FALSE, verified |-> totp.verified]
  /\ raced' = (raced \/ Racing)
  /\ UNCHANGED <<enrol, tickets>>

\* handle2FAVerify reads the secret and checks the code against it ...
Begin2FAVerify(w) ==
  /\ enrol[w] = 0 /\ ~totp.enabled /\ totp.secret # 0
  /\ enrol' = [enrol EXCEPT ![w] = totp.secret]
  /\ UNCHANGED <<totp, tickets, secrets, raced>>

\* ... and enables whatever secret the row holds by then.
Enable2FA(w) ==
  /\ enrol[w] # 0
  /\ totp' = [totp EXCEPT !.enabled = TRUE, !.verified = enrol[w]]
  /\ enrol' = [enrol EXCEPT ![w] = 0]
  /\ UNCHANGED <<tickets, secrets, raced>>

\* handle2FADisable, after the password.
Disable2FA ==
  /\ totp' = [totp EXCEPT !.secret = 0, !.enabled = FALSE]
  /\ raced' = (raced \/ Racing)
  /\ totp # totp'
  /\ UNCHANGED <<enrol, tickets, secrets>>

\* handleLogin with a second factor: a ticket instead of tokens.
IssueTicket ==
  /\ totp.enabled /\ tickets.made < MaxLogins
  /\ tickets' = [tickets EXCEPT !.open = @ + 1, !.made = @ + 1]
  /\ UNCHANGED <<totp, enrol, secrets, raced>>

\* handle2FALoginVerify takes the ticket (GETDEL) whatever comes of the code;
\* a missing secret, too many attempts or a wrong code leave it spent.
Verify2FALogin ==
  /\ tickets.open > 0
  /\ \/ tickets' = [tickets EXCEPT !.open = @ - 1, !.used = @ + 1] /\ totp.secret # 0
     \/ tickets' = [tickets EXCEPT !.open = @ - 1]
  /\ UNCHANGED <<totp, enrol, secrets, raced>>

TotpNext ==
  \/ \E seen \in {totp.enabled, FALSE} : Setup2FA(seen)
  \/ \E w \in Workers : Begin2FAVerify(w) \/ Enable2FA(w)
  \/ Disable2FA \/ IssueTicket \/ Verify2FALogin

\* A second factor asked for at login is a secret the user has shown to hold,
\* unless a setup or a disable ran between the check of the code and the
\* update that enables it: the update names no secret.
EnabledSecretVerified == totp.enabled /\ ~raced => totp.secret # 0 /\ totp.verified = totp.secret

-----------------------------------------------------------------------------
(* Registration: an e-mail address, a phone and a Google account that may    *)
(* all belong to the same person.                                          *)

Identities == {"email", "phone", "google"}
NoUser == [i \in Identities \cup {"role"} |-> FALSE]
Outside == [op |-> "idle", uid |-> 0]

RegistrationInit ==
  /\ users = [u \in 1 .. MaxUsers |-> NoUser]
  /\ rwork = [w \in Workers |-> Outside]
  /\ entries = {}
  /\ owned = {}

Owners(i) == {u \in 1 .. MaxUsers : users[u][i]}
Seen(i) == {e.uid : e \in {e \in owned : e.by = i}}  \* owners a lagging replica may show
FreeRows == {u \in 1 .. MaxUsers : users[u] = NoUser}

\* The rows of one transaction: the user, its role, its identities.
Insert(u, ids) ==
  /\ users' = [users EXCEPT ![u] = [i \in DOMAIN NoUser |-> i = "role" \/ i \in ids]]
  /\ owned' = owned \cup {[uid |-> u, by |-> i] : i \in ids}
Enter(w, u, i) == /\ entries' = entries \cup {[uid |-> u, by |-> i]}
                  /\ rwork' = [rwork EXCEPT ![w] = Outside]
Goes(w, op, u) == rwork' = [rwork EXCEPT ![w] = [op |-> op, uid |-> u]]

\* handleRegister: an address in use gets the same answer, and no session.
Register(w) ==
  /\ rwork[w] = Outside /\ Owners("email") = {}
  /\ \E u \in FreeRows : Insert(u, {"email"}) /\ Enter(w, u, "email")

\* handleAdminCreateUser logs nobody in.
AdminCreateUser ==
  /\ Owners("email") = {}
  /\ \E u \in FreeRows : Insert(u, {"email"})
  /\ UNCHANGED <<rwork, entries>>

\* handleRegisterWithPhone, once the code is consumed: the phone is looked up
\* on a replica, which may lag behind.
LookupPhone(w) ==
  /\ rwork[w] = Outside
  /\ \/ \E u \in Seen("phone") : Enter(w, u, "phone")
     \/ Goes(w, "phoneInsert", 0) /\ UNCHANGED entries
  /\ UNCHANGED <<users, owned>>

\* A duplicate phone sends the request back to the replica: the owner is
\* logged in, or the request fails.
RegisterWithPhone(w) ==
  /\ rwork[w].op = "phoneInsert"
  /\ \/ /\ Owners("phone") = {}
        /\ \E u \in FreeRows : Insert(u, {"phone"}) /\ Enter(w, u, "phone")
     \/ /\ Owners("phone") # {}
        /\ \/ \E u \in Seen("phone") : Enter(w, u, "phone")
           \/ Goes(w, "idle", 0) /\ UNCHANGED entries
        /\ UNCHANGED <<users, owned>>

\* ProcessOAuthLogin: the Google account, then the address, are looked up.
ProcessOAuthLogin(w) ==
  /\ rwork[w] = Outside
  /\ IF Owners("google") # {} THEN \E u \in Owners("google") : Enter(w, u, "google")
     ELSE /\ \/ \E u \in Owners("email") : Goes(w, "link", u)
             \/ Owners("email") = {} /\ Goes(w, "oauthCreate", 0)
          /\ UNCHANGED entries
  /\ UNCHANGED <<users, owned>>

\* LinkOAuthAccount looks again inside its transaction: another owner is an
\* error, this user's own link is refreshed, otherwise the link is inserted.
LinkOAuthAccount(w) ==
  /\ rwork[w].op = "link"
  /\ LET u == rwork[w].uid IN
     \/ /\ Owners("google") \subseteq {u}
        /\ users' = [users EXCEPT ![u].google = TRUE]
        /\ owned' = owned \cup {[uid |-> u, by |-> "google"]}
        /\ Enter(w, u, "google")
     \/ /\ ~(Owners("google") \subseteq {u})
        /\ Goes(w, "idle", 0)
        /\ UNCHANGED <<users, entries, owned>>

\* CreateOAuthUser: a unique key that is taken by now fails the transaction.
CreateOAuthUser(w) ==
  /\ rwork[w].op = "oauthCreate"
  /\ \/ /\ Owners("email") = {} /\ Owners("google") = {}
        /\ \E u \in FreeRows : Insert(u, {"email", "google"}) /\ Enter(w, u, "google")
     \/ /\ Owners("email") \cup Owners("google") # {}
        /\ Goes(w, "idle", 0)
        /\ UNCHANGED <<users, entries, owned>>

\* PUT /profile with a phone no other user has; the same handler clears it.
UpdateProfilePhone(u) ==
  /\ users[u].role
  /\ \/ /\ ~users[u].phone /\ Owners("phone") = {}
        /\ users' = [users EXCEPT ![u].phone = TRUE]
        /\ owned' = owned \cup {[uid |-> u, by |-> "phone"]}
     \/ /\ users[u].phone
        /\ users' = [users EXCEPT ![u].phone = FALSE]
        /\ UNCHANGED owned
  /\ UNCHANGED <<rwork, entries>>

RegistrationNext ==
  \/ \E w \in Workers : Register(w) \/ LookupPhone(w) \/ RegisterWithPhone(w) \/ ProcessOAuthLogin(w)
                        \/ LinkOAuthAccount(w) \/ CreateOAuthUser(w)
  \/ AdminCreateUser
  \/ \E u \in 1 .. MaxUsers : UpdateProfilePhone(u)

\* Whoever a registration or an OAuth login lets in owns the identity it was
\* asked for (or owned it, when a replica lags behind a changed phone), no
\* identity has two owners, and every user let in has a role, although the
\* lookups and the inserts are separate steps of racing requests.
EnteredAsOwner ==
  /\ \A e \in entries : e \in owned /\ users[e.uid].role
  /\ \A i \in Identities : Cardinality(Owners(i)) <= 1
=============================================================================
