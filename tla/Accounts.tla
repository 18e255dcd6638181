------------------------------- MODULE Accounts -------------------------------
(***************************************************************************)
(* Failed logins, lockout, and the sessions of a user on several devices.  *)
(*                                                                         *)
(*   api/src/auth/auth.service.ts                      login, refresh, logout *)
(*   api/src/auth/services/auth-token.service.ts       the sessions        *)
(*   api/src/auth/services/auth-password.service.ts    the first password  *)
(*   api/src/auth/services/auth-recovery.service.ts    recovery codes      *)
(*   api/src/users/users.service.ts                    deactivation, reset *)
(*                                                                         *)
(* No operation here locks a row: each reads the user, compares hashes and *)
(* signs tokens (which takes long), and then writes what it worked out     *)
(* from the row it had read.                                               *)
(***************************************************************************)
EXTENDS Integers, Sequences, FiniteSets, Functions

CONSTANTS
    Users,
    Ids,            \* ids of user_sessions rows
    Handlers,       \* concurrent requests to the API
    MaxAttempts,    \* MAX_LOGIN_ATTEMPTS
    MaxSessions,    \* the sessions that a user may have
    None            \* nobody

ASSUME AccountsAssumption ==
    /\ MaxAttempts \in Nat \ {0}
    /\ MaxSessions \in Nat \ {0}
    /\ IsFiniteSet(Handlers) /\ Handlers # {}
    /\ None \notin Users \cup Ids

VARIABLES
    active,     \* users that are not INACTIVE
    fresh,      \* users with requiresPasswordChange
    attempts,   \* failedLoginAttempts of each user
    lock,       \* lockoutUntil: none, to come (locked), or past (expired)
    code,       \* users with a reset code that has not expired
    setup,      \* users for whom a setup token is valid
    sessions,   \* the sessions of each user, from the least recently active
    hand        \* state of each handler

account == <<active, fresh, code, setup>>
vars    == <<active, fresh, attempts, lock, code, setup, sessions, hand>>

Handler == [pc: {"idle", "compare", "reset", "list", "evict", "create",
                 "rotate", "logout", "others"},
            u: Users \cup {None},
            base: 0..(MaxAttempts - 1),     \* failed attempts before this one
            fresh: BOOLEAN,                 \* requiresPasswordChange, as read
            id: Ids \cup {None},            \* the session that was matched
            old: SUBSET Ids]                \* the sessions to be evicted
Idle == [pc |-> "idle", u |-> None, base |-> 0, fresh |-> FALSE, id |-> None, old |-> {}]

TypeOK ==
    /\ active \in SUBSET Users /\ fresh \in SUBSET Users
    /\ attempts \in [Users -> 0..MaxAttempts]
    /\ lock \in [Users -> {"none", "locked", "expired"}]
    /\ code \in SUBSET Users /\ setup \in SUBSET Users
    /\ sessions \in [Users -> Seq(Ids)]
    /\ hand \in [Handlers -> Handler]

\* Users are created with a password that they have to change.
Init ==
    /\ active = Users
    /\ fresh = Users
    /\ attempts = [u \in Users |-> 0]
    /\ lock = [u \in Users |-> "none"]
    /\ code = {}
    /\ setup = {}
    /\ sessions = [u \in Users |-> <<>>]
    /\ hand = [h \in Handlers |-> Idle]

Goes(h, r) == hand' = [hand EXCEPT ![h] = r]
Has(u, i)  == \E k \in DOMAIN sessions[u] : sessions[u][k] = i

\* The sessions of a user but those in S, in the same order: the n-th of them is
\* the one that has n of them up to it.
Without(u, S) ==
    LET s == sessions[u]
        kept == {k \in DOMAIN s : s[k] \notin S}
        rank(k) == Cardinality({j \in kept : j <= k})
    IN  [n \in 1..Cardinality(kept) |-> s[CHOOSE k \in kept : rank(k) = n]]

-----------------------------------------------------------------------------
(***************************************************************************)
(* login                                                                   *)
(***************************************************************************)
\* A lockout that is over counts from zero again.
AttemptsBefore_Kept(u) == attempts[u]
AttemptsBefore(u) == IF lock[u] = "expired" THEN 0 ELSE attempts[u]

\* An inactive user is refused, and one who is locked out.
LoginRead(h) ==
    /\ hand[h].pc = "idle"
    /\ \E u \in active :
          /\ lock[u] # "locked"
          /\ Goes(h, [Idle EXCEPT !.pc = "compare", !.u = u, !.fresh = u \in fresh,
                                  !.base = AttemptsBefore(u)])
    /\ UNCHANGED <<account, attempts, lock, sessions>>

\* The wrong password: both columns are written from the row that was read.
LockAfter(n) == IF n >= MaxAttempts THEN "locked" ELSE "none"
LoginFail(h) ==
    LET r == hand[h] IN
    /\ r.pc = "compare"
    /\ attempts' = [attempts EXCEPT ![r.u] = r.base + 1]
    /\ lock' = [lock EXCEPT ![r.u] = LockAfter(r.base + 1)]
    /\ Goes(h, Idle)
    /\ UNCHANGED <<account, sessions>>

\* The right one.  Who has to change it gets a setup token and no session.
LoginPass(h) ==
    LET r == hand[h] IN
    /\ r.pc = "compare"
    /\ attempts' = [attempts EXCEPT ![r.u] = 0]
    /\ lock' = [lock EXCEPT ![r.u] = "none"]
    /\ IF r.fresh
       THEN setup' = setup \cup {r.u} /\ Goes(h, Idle)
       ELSE Goes(h, [Idle EXCEPT !.pc = "list", !.u = r.u]) /\ UNCHANGED setup
    /\ UNCHANGED <<active, fresh, code, sessions>>

LockExpires(u) ==
    /\ lock[u] = "locked"
    /\ lock' = [lock EXCEPT ![u] = "expired"]
    /\ UNCHANGED <<account, attempts, sessions, hand>>

-----------------------------------------------------------------------------
(***************************************************************************)
(* The passwords                                                           *)
(***************************************************************************)
\* setupNewPassword; the token stays valid until it expires.
SetupNewPassword(h) ==
    /\ hand[h].pc = "idle"
    /\ \E u \in setup :
          /\ fresh' = fresh \ {u}
          /\ Goes(h, [Idle EXCEPT !.pc = "list", !.u = u])
    /\ UNCHANGED <<active, code, setup, attempts, lock, sessions>>

RequestPasswordReset(u) ==
    /\ code' = code \cup {u}
    /\ UNCHANGED <<active, fresh, setup, attempts, lock, sessions, hand>>

\* resetPasswordWithCode: the code is compared, and then used up.
ResetRead(h) ==
    /\ hand[h].pc = "idle"
    /\ \E u \in code : Goes(h, [Idle EXCEPT !.pc = "reset", !.u = u])
    /\ UNCHANGED <<account, attempts, lock, sessions>>

AttemptsAfterReset_Kept(u) == attempts[u]
AttemptsAfterReset(u) == 0
ResetWrite(h) ==
    LET u == hand[h].u IN
    /\ hand[h].pc = "reset"
    /\ attempts' = [attempts EXCEPT ![u] = AttemptsAfterReset(u)]
    /\ lock' = [lock EXCEPT ![u] = "none"]
    /\ code' = code \ {u}
    /\ Goes(h, Idle)
    /\ UNCHANGED <<active, fresh, setup, sessions>>

\* 15 minutes later.
TokensExpire ==
    /\ code' \in SUBSET code /\ setup' \in SUBSET setup
    /\ <<code, setup>>' # <<code, setup>>
    /\ UNCHANGED <<active, fresh, attempts, lock, sessions, hand>>

\* UsersService: resetPassword, remove and reactivate.
AdminReset(u) ==
    /\ fresh' = fresh \cup {u}
    /\ sessions' = [sessions EXCEPT ![u] = <<>>]
    /\ UNCHANGED <<active, code, setup, attempts, lock, hand>>

Deactivate(u) ==
    /\ active' = active \ {u}
    /\ sessions' = [sessions EXCEPT ![u] = <<>>]
    /\ UNCHANGED <<fresh, code, setup, attempts, lock, hand>>

Reactivate(u) ==
    /\ active' = active \cup {u}
    /\ UNCHANGED <<fresh, code, setup, attempts, lock, sessions, hand>>

-----------------------------------------------------------------------------
(***************************************************************************)
(* generateTokens of a new session                                         *)
(***************************************************************************)
\* authorizeQrChallenge: a device with an access token opens a session elsewhere.
\* The token outlives its session: there may be none left.
AuthorizeQr(h) ==
    /\ hand[h].pc = "idle"
    /\ \E u \in active : Goes(h, [Idle EXCEPT !.pc = "list", !.u = u])
    /\ UNCHANGED <<account, attempts, lock, sessions>>

\* The sessions that are too many for one more, from the oldest.
Oldest_OneShort(s) == {s[k] : k \in 1..(Len(s) - MaxSessions)}
Oldest(s) == {s[k] : k \in 1..(Len(s) - (MaxSessions - 1))}
ListSessions(h) ==
    LET r == hand[h] IN
    /\ r.pc = "list"
    /\ IF Len(sessions[r.u]) >= MaxSessions
       THEN Goes(h, [r EXCEPT !.pc = "evict", !.old = Oldest(sessions[r.u])])
       ELSE Goes(h, [r EXCEPT !.pc = "create"])
    /\ UNCHANGED <<account, attempts, lock, sessions>>

EvictSessions(h) ==
    LET r == hand[h] IN
    /\ r.pc = "evict"
    /\ sessions' = [sessions EXCEPT ![r.u] = Without(r.u, r.old)]
    /\ Goes(h, [r EXCEPT !.pc = "create", !.old = {}])
    /\ UNCHANGED <<account, attempts, lock>>

\* Ids are never used twice; one that is neither stored nor held by a request
\* stands for the next one.
InUse(i) == \/ \E u \in Users : Has(u, i)
            \/ \E h \in Handlers : hand[h].id = i \/ i \in hand[h].old
CreateSession(h) ==
    LET u == hand[h].u IN
    /\ hand[h].pc = "create"
    /\ \E i \in Ids : /\ ~InUse(i)
                      /\ sessions' = [sessions EXCEPT ![u] = Append(@, i)]
    /\ Goes(h, Idle)
    /\ UNCHANGED <<account, attempts, lock>>

-----------------------------------------------------------------------------
(***************************************************************************)
(* refreshTokens, logout and revocation                                    *)
(***************************************************************************)
\* findMatchingSession.  bcrypt compares the first 72 bytes, which all refresh
\* tokens of a user have in common: the session that the database lists first
\* matches, whichever that is.
FindSession(h) ==
    /\ hand[h].pc = "idle"
    /\ \E u \in Users, i \in Ids, to \in {"rotate", "logout", "others"} :
          /\ Has(u, i)
          /\ Goes(h, [Idle EXCEPT !.pc = to, !.u = u, !.id = i])
    /\ UNCHANGED <<account, attempts, lock, sessions>>

\* The update of a session by its id fails if that is gone; if not, the session
\* is the most recently active.
Rotated_Upsert(u, i) == Append(Without(u, {i}), i)
Rotated(u, i) == IF Has(u, i) THEN Append(Without(u, {i}), i) ELSE sessions[u]
RotateSession(h) ==
    LET r == hand[h] IN
    /\ r.pc = "rotate"
    /\ sessions' = [sessions EXCEPT ![r.u] = Rotated(r.u, r.id)]
    /\ Goes(h, Idle)
    /\ UNCHANGED <<account, attempts, lock>>

\* revokeSessionByToken deletes the session; revokeAllOtherSessions all others.
RevokeMatched(h) ==
    LET r == hand[h] IN
    /\ r.pc \in {"logout", "others"}
    /\ sessions' = [sessions EXCEPT ![r.u] = Without(r.u,
                       IF r.pc = "logout" THEN {r.id} ELSE Ids \ {r.id})]
    /\ Goes(h, Idle)
    /\ UNCHANGED <<account, attempts, lock>>

\* revokeSession, and logout without a token.
RevokeSessions(u) ==
    /\ \E S \in {{sessions[u][k]} : k \in DOMAIN sessions[u]} \cup {Ids} :
          sessions' = [sessions EXCEPT ![u] = Without(u, S)]
    /\ UNCHANGED <<account, attempts, lock, hand>>

-----------------------------------------------------------------------------
\* A process or a connection that is lost.
Abort(h) ==
    /\ hand[h].pc # "idle"
    /\ Goes(h, Idle)
    /\ UNCHANGED <<account, attempts, lock, sessions>>

Step(h) == \/ LoginFail(h) \/ LoginPass(h) \/ ResetWrite(h) \/ ListSessions(h)
           \/ EvictSessions(h) \/ CreateSession(h) \/ RotateSession(h) \/ RevokeMatched(h)

Next ==
    \/ \E h \in Handlers : \/ LoginRead(h) \/ SetupNewPassword(h) \/ ResetRead(h)
                           \/ AuthorizeQr(h) \/ FindSession(h) \/ Step(h) \/ Abort(h)
    \/ \E u \in Users : \/ LockExpires(u) \/ RequestPasswordReset(u) \/ AdminReset(u)
                        \/ Deactivate(u) \/ Reactivate(u) \/ RevokeSessions(u)
    \/ TokensExpire

Spec == Init /\ [][Next]_vars

-----------------------------------------------------------------------------
(***************************************************************************)
(* Properties                                                              *)
(***************************************************************************)

\* The counter and the lockout are two columns that concurrent logins and resets
\* overwrite with what they had read, but never against each other: who has used
\* up the attempts is or was locked out, and nobody else.
LockTellsAttempts ==
    \A u \in Users : attempts[u] = MaxAttempts <=> lock[u] # "none"

\* The limit of sessions is kept up to the logins that run at the same time: each
\* one may find the list before the others have added theirs, and the excess does
\* not build up.
SessionsBounded ==
    \A u \in Users :
        /\ Len(sessions[u]) <= MaxSessions + Cardinality(Handlers) - 1
        /\ IsInjective(sessions[u])

\* A session that was revoked, evicted or closed with its account does not come
\* back: a rotation that had found it before fails.
NoSessionComesBack ==
    [][\A u \in Users, i \in Ids :
          Has(u, i)' /\ ~Has(u, i) => \A h \in Handlers : hand[h].id # i]_vars
=============================================================================
