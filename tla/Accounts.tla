------------------------------ MODULE Accounts ------------------------------
(***************************************************************************)
(* One account of the admin panel: its row in users, its sessions, its     *)
(* password reset tokens and its login step-up challenges, under           *)
(* overlapping requests: logins with and without a code by mail, the       *)
(* upgrade of an old password hash, resets, edits and new passwords by     *)
(* administrators.                                                         *)
(*                                                                         *)
(* A password stands for its epoch, the number of passwords the account    *)
(* had before.  A request works on the row it has read while others write. *)
(* Every batch of identity.ts is a transaction of D1, one action here.     *)
(* Rate limits may refuse any request and are not modelled: a request that *)
(* is refused changes nothing.                                             *)
(***************************************************************************)
EXTENDS Integers, FiniteSets, FiniteSetsExt, Sequences

CONSTANTS Calls,          \* requests in flight
          Emails,
          Tokens,         \* password reset tokens
          Challenges,     \* login step-up challenges
          MaxEpoch,       \* bound: passwords after the first
          MaxGeneration,  \* bound: changes of address, disablings, enablings
          MaxSessions,    \* 8 in the code
          MaxWrong,       \* 5 in the code
          None

Roles == {"ADMIN", "OWNER"}   \* any role below OWNER is ADMIN here

\* current: the hash has today's format.
Hash == [epoch : 0..MaxEpoch, current : BOOLEAN]

\* Not kept: the name, and the time in disabled_at.
UserRow == [email : Emails, role : Roles, disabled : BOOLEAN,
            generation : 0..MaxGeneration, hash : Hash]

\* What updateUser reads of it.
EditedRow == [email : Emails, role : Roles, disabled : BOOLEAN, generation : 0..MaxGeneration]

\* What a login, a challenge and a token are bound to.
Credentials == [email : Emails, generation : 0..MaxGeneration, hash : Hash]

CredentialsOf(row) == [email |-> row.email, generation |-> row.generation, hash |-> row.hash]

\* An open token; issued for: what the row was then, the hash's format aside
\* (history).  One that is used, expired or taken back is None, and its name may
\* stand for another token once no request holds it; so may a challenge's.
TokenRow == [email : Emails, generation : 0..MaxGeneration, epoch : 0..MaxEpoch]

\* A challenge that is neither consumed, invalidated nor expired.
ChallengeRow == [expected : Credentials, failed : 0..MaxWrong]

\* The limits are numbers, the challenges can be counted and None is not a row.
ASSUME AccountBounds == /\ MaxEpoch \in Nat /\ MaxGeneration \in Nat
                        /\ MaxSessions \in Nat \ {0} /\ MaxWrong \in Nat
                        /\ IsFiniteSet(Challenges) /\ None \notin TokenRow \cup ChallengeRow

\* What an administrator asks for, one field at a time.
Patches == [field : {"email"}, to : Emails] \cup [field : {"role"}, to : Roles]
              \cup [field : {"disabled"}, to : BOOLEAN] \cup [field : {"password"}, to : {None}]

\* seen: the credentials or the row the request has read; owner: the
\* administrator was an OWNER when the request was authenticated.
Call == [pc    : {"idle", "rehash", "verified", "consumed", "wrong",
                  "reset", "confirm", "read", "write", "set"},
         seen  : Credentials \cup EditedRow \cup {None},
         on    : Tokens \cup Challenges \cup {None},
         patch : Patches \cup {None},
         owner : BOOLEAN]

NoCall == [pc |-> "idle", seen |-> None, on |-> None, patch |-> None, owner |-> FALSE]

VARIABLES
    user,       \* the account's row
    sessions,   \* those that are not revoked or expired, oldest first
    tokens,     \* password_reset_tokens: TokenRow or None
    challenges, \* login_step_up_challenges: ChallengeRow or None
    call        \* Calls -> Call

accVars == <<user, sessions, tokens, challenges, call>>

AccInit ==
    /\ user \in [email : Emails, role : Roles, disabled : {FALSE}, generation : {0},
                 hash : [epoch : {0}, current : BOOLEAN]]
    /\ sessions = <<>>
    /\ tokens = [t \in Tokens |-> None]
    /\ challenges = [m \in Challenges |-> None]
    /\ call = [c \in Calls |-> NoCall]

-----------------------------------------------------------------------------
(* The statements of storage/repository/identity.ts.                       *)

IsCurrent(credentials) == ~user.disabled /\ CredentialsOf(user) = credentials

\* A bug for the mutation test: the session is made for the account's id alone.
MadeForAnyone(credentials) == ~user.disabled

MayCreateSession(credentials) == IsCurrent(credentials)

\* Of the older sessions the newest MaxSessions - 1 stay.
createSession(epoch, generation) ==
    LET extra == Max({0, Len(sessions) - (MaxSessions - 1)}) IN
    Append(SubSeq(sessions, extra + 1, Len(sessions)), [epoch |-> epoch, generation |-> generation])

UseTokens == [t \in Tokens |-> None]

\* The cohort of a challenge: the account's live ones of its generation.
Wrong(generation) ==
    MapThenSumSet(LAMBDA m : challenges[m].failed,
                  {m \in Challenges : /\ challenges[m] # None
                                      /\ challenges[m].expected.generation = generation})

TakesCode(m) ==
    /\ challenges[m] # None
    /\ Wrong(challenges[m].expected.generation) < MaxWrong
    /\ IsCurrent(challenges[m].expected)

\* Another password, by a reset or by an administrator.
NewPassword ==
    /\ user.hash.epoch < MaxEpoch
    /\ user' = [user EXCEPT !.hash = [epoch |-> user.hash.epoch + 1, current |-> TRUE]]
    /\ sessions' = <<>>
    /\ tokens' = UseTokens

GoesOn(c, pc, seen, on) ==
    call' = [call EXCEPT ![c].pc = pc, ![c].seen = seen, ![c].on = on]

IsOver(c) == call' = [call EXCEPT ![c] = NoCall]

Free(x) == \A c \in Calls : call[c].on # x

-----------------------------------------------------------------------------
(* Login: services/auth.ts, handleLogin and handleLoginMfa of index.ts.    *)

\* The right password; a wrong one, or a disabled account, changes nothing.
verifyLoginCredentials(c) ==
    /\ call[c].pc = "idle" /\ ~user.disabled
    /\ GoesOn(c, IF user.hash.current THEN "verified" ELSE "rehash", CredentialsOf(user), None)
    /\ UNCHANGED <<user, sessions, tokens, challenges>>

\* Of two logins with the old hash only one upgrades it; the other is refused.
updateUserPasswordHashIfCurrent(c) ==
    /\ call[c].pc = "rehash"
    /\ IF user.hash = call[c].seen.hash
         THEN /\ user' = [user EXCEPT !.hash.current = TRUE]
              /\ GoesOn(c, "verified", [call[c].seen EXCEPT !.hash.current = TRUE], None)
         ELSE IsOver(c) /\ UNCHANGED user
    /\ UNCHANGED <<sessions, tokens, challenges>>

\* completeLoginStepUpChallenge reads the row once more before this: what it
\* would refuse, this refuses.
createSessionIfCredentialsCurrent(c) ==
    /\ call[c].pc \in {"verified", "consumed"}
    /\ sessions' = IF MayCreateSession(call[c].seen)
                     THEN createSession(call[c].seen.hash.epoch, call[c].seen.generation)
                     ELSE sessions
    /\ IsOver(c)
    /\ UNCHANGED <<user, tokens, challenges>>

\* After many failures for the account, from any address, a code by mail.
createLoginStepUpChallenge(c) ==
    /\ call[c].pc = "verified"
    /\ IF IsCurrent(call[c].seen)
         THEN \E m \in Challenges :
                /\ challenges[m] = None /\ Free(m)
                /\ challenges' = [challenges EXCEPT ![m] =
                        [expected |-> CredentialsOf(user), failed |-> 0]]
         ELSE UNCHANGED challenges
    /\ IsOver(c)
    /\ UNCHANGED <<user, sessions, tokens>>

\* The right code.  One that is refused is not counted.
consumeLoginStepUpChallenge(c, m) ==
    /\ call[c].pc = "idle" /\ TakesCode(m)
    /\ challenges' = [challenges EXCEPT ![m] = None]
    /\ GoesOn(c, "consumed", challenges[m].expected, None)
    /\ UNCHANGED <<user, sessions, tokens>>

\* A wrong code: the statement that consumes finds nothing, another counts.
RefuseCode(c, m) ==
    /\ call[c].pc = "idle" /\ challenges[m] # None
    /\ GoesOn(c, "wrong", None, m)
    /\ UNCHANGED <<user, sessions, tokens, challenges>>

\* A bug for the mutation test: the cohort's failures are not asked again.
CountsAnyFailure(m) ==
    /\ challenges[m] # None
    /\ challenges[m].failed < MaxWrong
    /\ IsCurrent(challenges[m].expected)

CountsFailure(m) == TakesCode(m)

incrementLoginStepUpFailure(c) ==
    /\ call[c].pc = "wrong"
    /\ challenges' = IF CountsFailure(call[c].on)
                       THEN [challenges EXCEPT ![call[c].on].failed = @ + 1]
                       ELSE challenges
    /\ IsOver(c)
    /\ UNCHANGED <<user, sessions, tokens>>

-----------------------------------------------------------------------------
(* Password reset: processPasswordResetRequest and confirmPasswordReset.   *)

requestReset(c) ==
    /\ call[c].pc = "idle" /\ ~user.disabled
    /\ GoesOn(c, "reset", CredentialsOf(user), None)
    /\ UNCHANGED <<user, sessions, tokens, challenges>>

createPasswordResetToken(c) ==
    /\ call[c].pc = "reset"
    /\ IF IsCurrent(call[c].seen)
         THEN \E t \in Tokens :
                /\ tokens[t] = None /\ Free(t)
                /\ tokens' = [UseTokens EXCEPT ![t] =
                        [email |-> user.email, generation |-> user.generation,
                         epoch |-> user.hash.epoch]]
         ELSE UNCHANGED tokens
    /\ IsOver(c)
    /\ UNCHANGED <<user, sessions, challenges>>

getActivePasswordResetUser(c, t) ==
    /\ call[c].pc = "idle" /\ ~user.disabled /\ tokens[t] # None
    /\ GoesOn(c, "confirm", None, t)
    /\ UNCHANGED <<user, sessions, tokens, challenges>>

\* The token alone is asked for: that it is of the account as it is now is
\* the work of whatever changes the account.
resetPasswordWithToken(c) ==
    /\ call[c].pc = "confirm"
    /\ IF ~user.disabled /\ tokens[call[c].on] # None
         THEN NewPassword
         ELSE UNCHANGED <<user, sessions, tokens>>
    /\ IsOver(c)
    /\ UNCHANGED challenges

-----------------------------------------------------------------------------
(* Administrators: handleUserUpdate and handleUserPassword.                *)

\* What may be asked of the account as it is when the request is checked.
authorizePatch(c, patch, owner) ==
    /\ call[c].pc = "idle"
    /\ patch.field = "role" /\ patch.to = "OWNER" => owner
    /\ owner \/ user.role # "OWNER"
    /\ call' = [call EXCEPT ![c] = [NoCall EXCEPT
            !.pc = IF patch.field = "password" THEN "set" ELSE "read",
            !.patch = patch, !.owner = owner]]
    /\ UNCHANGED <<user, sessions, tokens, challenges>>

readUser(c) ==
    /\ call[c].pc = "read"
    /\ GoesOn(c, "write", [f \in {"email", "role", "disabled", "generation"} |-> user[f]], None)
    /\ UNCHANGED <<user, sessions, tokens, challenges>>

\* A bug for the mutation test: an address and a role that still match are enough.
RowIsSimilar(row) == user.email = row.email /\ user.role = row.role

RowIsAsRead(row) == \A f \in DOMAIN row : user[f] = row[f]

Protected(owner) == ~owner /\ user.role = "OWNER"

\* Every column that was read is written, from what was read.
Patched(row, patch) ==
    LET next   == [row EXCEPT ![patch.field] = patch.to]
        resets == next.email # row.email \/ next.disabled # row.disabled
    IN  [next EXCEPT !.generation = @ + (IF resets THEN 1 ELSE 0)]

updateUser(c) ==
    LET next == Patched(call[c].seen, call[c].patch) IN
    /\ call[c].pc = "write"
    /\ IF RowIsAsRead(call[c].seen) /\ ~Protected(call[c].owner)
         THEN /\ next.generation <= MaxGeneration
              /\ user' = [user EXCEPT !.email = next.email, !.role = next.role,
                                      !.disabled = next.disabled,
                                      !.generation = next.generation]
              /\ IF next.generation = call[c].seen.generation
                   THEN UNCHANGED <<sessions, tokens>>
                   ELSE sessions' = <<>> /\ tokens' = UseTokens
         ELSE UNCHANGED <<user, sessions, tokens>>
    /\ IsOver(c)
    /\ UNCHANGED challenges

\* A disabled account may be given a password too.
setUserPassword(c) ==
    /\ call[c].pc = "set"
    /\ IF Protected(call[c].owner) THEN UNCHANGED <<user, sessions, tokens>> ELSE NewPassword
    /\ IsOver(c)
    /\ UNCHANGED challenges

-----------------------------------------------------------------------------
(* Time, and requests that do not finish.                                  *)

\* A logout, or the day a session lasts.
EndSession(i) ==
    /\ i \in DOMAIN sessions
    /\ sessions' = SubSeq(sessions, 1, i - 1) \o SubSeq(sessions, i + 1, Len(sessions))
    /\ UNCHANGED <<user, tokens, challenges, call>>

\* Past expires_at a token opens nothing; one whose link could not be sent is
\* taken back, and so is a challenge whose code could not.
LoseToken(t) ==
    /\ tokens[t] # None
    /\ tokens' = [tokens EXCEPT ![t] = None]
    /\ UNCHANGED <<user, sessions, challenges, call>>

LoseChallenge(m) ==
    /\ challenges[m] # None
    /\ challenges' = [challenges EXCEPT ![m] = None]
    /\ UNCHANGED <<user, sessions, tokens, call>>

\* The isolate is gone in the middle of a request.
Crash(c) ==
    /\ call[c].pc # "idle"
    /\ IsOver(c)
    /\ UNCHANGED <<user, sessions, tokens, challenges>>

AccNext ==
    \/ \E c \in Calls :
        \/ verifyLoginCredentials(c) \/ updateUserPasswordHashIfCurrent(c)
        \/ createSessionIfCredentialsCurrent(c)
        \/ createLoginStepUpChallenge(c)
        \/ \E m \in Challenges : consumeLoginStepUpChallenge(c, m) \/ RefuseCode(c, m)
        \/ incrementLoginStepUpFailure(c)
        \/ requestReset(c) \/ createPasswordResetToken(c)
        \/ \E t \in Tokens : getActivePasswordResetUser(c, t)
        \/ resetPasswordWithToken(c)
        \/ \E patch \in Patches, owner \in BOOLEAN : authorizePatch(c, patch, owner)
        \/ readUser(c) \/ updateUser(c) \/ setUserPassword(c)
        \/ Crash(c)
    \/ \E i \in 1..MaxSessions : EndSession(i)
    \/ \E t \in Tokens : LoseToken(t)
    \/ \E m \in Challenges : LoseChallenge(m)

AccSpec == AccInit /\ [][AccNext]_accVars

-----------------------------------------------------------------------------
\* The types, with the two limits that overlapping requests press on: active
\* sessions of an account, and wrong codes in the cohort of its challenges.
AccTypeOK ==
    /\ user \in UserRow
    /\ sessions \in Seq([epoch : 0..MaxEpoch, generation : 0..MaxGeneration])
    /\ Len(sessions) <= MaxSessions
    /\ tokens \in [Tokens -> TokenRow \cup {None}]
    /\ challenges \in [Challenges -> ChallengeRow \cup {None}]
    /\ \A g \in 0..MaxGeneration : Wrong(g) <= MaxWrong
    /\ call \in [Calls -> Call]

\* Made with the password, for the address and since the last disabling the
\* account has now.
SessionsAreCurrent ==
    \A i \in DOMAIN sessions :
        /\ ~user.disabled
        /\ sessions[i].epoch = user.hash.epoch
        /\ sessions[i].generation = user.generation

\* At most one, and sent to the address the account has now, for the password
\* it has now, while it was enabled.
TokensAreCurrent ==
    LET open == {t \in Tokens : tokens[t] # None} IN
    /\ Cardinality(open) <= 1
    /\ \A t \in open :
        /\ ~user.disabled
        /\ tokens[t].email = user.email
        /\ tokens[t].generation = user.generation
        /\ tokens[t].epoch = user.hash.epoch

\* Nothing outlives the credentials it was made for.  No session that still
\* answers comes from a login that verified an earlier password, or that began
\* before the address changed or the account was disabled, with or without a
\* code by mail; and no reset link is left from before such a change, though
\* resetPasswordWithToken compares neither address nor password
\* (createSessionIfCredentialsCurrent and the batches that revoke).
AccessIsCurrent == SessionsAreCurrent /\ TokensAreCurrent

\* The fields a step changes, the counter aside.
Changed == {f \in {"email", "role", "disabled", "hash"} : user'[f] # user[f]}

\* An edit changes the one field it was asked to change, whatever was written
\* since it read the row, and the generation counts every change of address
\* and every change of disabled.  An OWNER is edited, and made, only by an
\* OWNER; else its row changes by its own login or reset (updateUser,
\* setUserPassword: an ADMIN's edit that overlaps a promotion fails).
EditsAreExact ==
    [][user' # user =>
        /\ user'.generation = user.generation + Cardinality(Changed \cap {"email", "disabled"})
        /\ \E c \in Calls :
            /\ call'[c] # call[c]
            /\ \/ call[c].pc \in {"rehash", "confirm"} /\ Changed = {"hash"}
               \/ /\ call[c].pc \in {"write", "set"}
                  /\ Changed = {IF call[c].pc = "set" THEN "hash" ELSE call[c].patch.field}
                  /\ call[c].pc = "write" => user'[call[c].patch.field] = call[c].patch.to
                  /\ "OWNER" \in {user.role, user'.role} => call[c].owner]_accVars

=============================================================================
