--------------------------- MODULE Authentication ---------------------------
(***************************************************************************)
(* Login, reauthentication, password changes and TOTP enrolment of one     *)
(* user.  login locks the user row (SELECT ... FOR UPDATE) until it        *)
(* commits; every other request loads the row unlocked in get_current_user *)
(* and later writes the columns it changed, auth_version as the value it   *)
(* loaded plus one.  An UPDATE waits for the lock.                         *)
(*                                                                         *)
(* Abstracted: a TOTP code is <<"totp", secret, step>> and a recovery code *)
(* <<"code", enrolment, n>>; a hash stands for what it hashes; a token is  *)
(* [purpose, ver], and one that is expired or badly signed is never        *)
(* presented; audit rows are written with each change and read by nobody.  *)
(***************************************************************************)
EXTENDS Integers, FiniteSets

CONSTANTS
    Sessions, Passwords,
    RecoveryCodes,     \* 1.._RECOVERY_CODE_COUNT
    Absent,            \* no user row
    Free,              \* no lock holder
    MaxStep, MaxSecrets, MaxChanges   \* bounds

ASSUME AuthenticationAssumption ==
    /\ {MaxStep, MaxSecrets, MaxChanges} \subseteq Nat
    /\ RecoveryCodes \subseteq Nat

VARIABLES
    user,       \* the row, or Absent
    lock,       \* the session that holds its row lock, or Free
    tokens,     \* signed tokens handed out
    now,        \* TOTP time step
    minted,     \* secrets generated so far
    pc, row,    \* of each session: control point, the row it has loaded
    epoch,      \* committed credential changes (history)
    overlapped, \* a change committed that had loaded the row before another
                \* one committed (history)
    confirmed,  \* secrets that a confirm switched on (history)
    reconfirmed,\* those of them that another confirm switched on (history)
    spent,      \* codes that logins accepted (history)
    replayed    \* those of them that another login accepted (history)

sessvars == <<pc, row>>
usage == <<confirmed, reconfirmed, spent, replayed>>
history == <<epoch, overlapped, usage>>
vars == <<user, lock, tokens, now, minted, sessvars, history>>

Code == {"totp", "code"} \X Nat \X Nat

UserRole == {"SUPER_ADMIN", "NORMAL_USER"}

\* mfa_secret, mfa_pending_secret: 0 is NULL; mfa_last_used_step: -1 is NULL.
User ==
    [role : UserRole, password : Passwords, auth_version : Nat,
     mfa_enabled : BOOLEAN, secret : Nat, pending : Nat,
     last_used_step : Int, codes : SUBSET Code]

ASSUME AbsenceAssumption == Absent \notin User /\ Free \notin Sessions

\* epoch is history: the changes that had committed when ver was read.
Token == [purpose : {"access", "reauthentication"}, ver : Nat, epoch : Nat]

\* The requests that replace credentials, and those that load the row without
\* doing so.
Changes == {"password", "confirm", "disable"}
PCs == Changes \cup UserRole \* a role: about to insert a user with it
           \cup {"idle", "login", "issue", "reauthenticate", "issue_reauth",
                 "enroll"}

TypeOK ==
    /\ user \in User \cup {Absent}
    /\ lock \in {s \in Sessions : pc[s] = "login"} \cup {Free}
    /\ tokens \subseteq Token
    /\ {now, minted, epoch} \subseteq Nat
    /\ pc \in [Sessions -> PCs]
    /\ row \in [Sessions -> User \cup {Absent}]
    /\ overlapped \in BOOLEAN
    /\ confirmed \subseteq Nat /\ reconfirmed \subseteq Nat
    /\ spent \subseteq Code /\ replayed \subseteq Code

Init ==
    /\ user = Absent /\ lock = Free /\ tokens = {} /\ now = 1 /\ minted = 0
    /\ pc = [s \in Sessions |-> "idle"]
    /\ row = [s \in Sessions |-> Absent]
    /\ epoch = 0 /\ overlapped = FALSE
    /\ confirmed = {} /\ reconfirmed = {} /\ spent = {} /\ replayed = {}

Goto(s, label) == pc' = [pc EXCEPT ![s] = label]
Load(s, value) == row' = [row EXCEPT ![s] = value]
Return(s) == Goto(s, "idle") /\ Load(s, Absent)
-----------------------------------------------------------------------------
(***************************************************************************)
(* create_user (registration) and bootstrap_super_admin (server command):  *)
(* a lookup, then an INSERT that the unique columns may refuse.            *)
(***************************************************************************)
FindExisting(s, role) ==
    /\ pc[s] = "idle" /\ user = Absent
    /\ Goto(s, role)
    /\ UNCHANGED <<user, lock, tokens, now, minted, row, history>>

NewUser(role, password) ==
    [role |-> role, password |-> password, auth_version |-> 0,
     mfa_enabled |-> FALSE, secret |-> 0, pending |-> 0,
     last_used_step |-> -1, codes |-> {}]

\* Mutant: no unique constraint on email and username.
InsertUserUnchecked(s, role, password) ==
    /\ pc[s] = role
    /\ user' = NewUser(role, password)
    /\ Return(s)
    /\ UNCHANGED <<lock, tokens, now, minted, history>>

InsertUser(s, role, password) ==
    /\ pc[s] = role
    /\ \/ user = Absent /\ user' = NewUser(role, password)
       \/ user # Absent /\ UNCHANGED user
    /\ Return(s)
    /\ UNCHANGED <<lock, tokens, now, minted, history>>

create_user(s) ==
    \/ FindExisting(s, "NORMAL_USER")
    \/ \E p \in Passwords : InsertUser(s, "NORMAL_USER", p)

bootstrap_super_admin(s) ==
    \/ FindExisting(s, "SUPER_ADMIN")
    \/ \E p \in Passwords : InsertUser(s, "SUPER_ADMIN", p)
-----------------------------------------------------------------------------
(***************************************************************************)
(* verify_mfa_challenge on a loaded row u: the row it leaves.              *)
(***************************************************************************)
\* _match_totp: a step within one of now, after the last one used.
MatchTotp(secret, last, code) ==
    /\ code[1] = "totp" /\ code[2] = secret
    /\ code[3] \in (now - 1)..(now + 1) /\ code[3] > last

verify_mfa_challenge(u, code) ==
    /\ u.mfa_enabled /\ u.secret # 0
    /\ code \in u.codes \/ MatchTotp(u.secret, u.last_used_step, code)

Consume(u, code) ==
    IF code \in u.codes THEN [u EXCEPT !.codes = @ \ {code}]
                        ELSE [u EXCEPT !.last_used_step = code[3]]

\* What anybody may type in now; TOTP steps lie within the bound.
Presentable ==
    ({"totp"} \X (1..minted) \X (((now - 1)..(now + 1)) \cap (1..MaxStep)))
        \cup ({"code"} \X (1..epoch) \X RecoveryCodes)
-----------------------------------------------------------------------------
(***************************************************************************)
(* POST /auth/login                                                        *)
(***************************************************************************)
\* Mutant: the row is read without FOR UPDATE.
LockUserUnlocked(s) ==
    /\ pc[s] = "idle" /\ user # Absent
    /\ Load(s, user) /\ Goto(s, "login")
    /\ UNCHANGED <<user, lock, tokens, now, minted, history>>

LockUser(s) ==
    /\ pc[s] = "idle" /\ user # Absent
    /\ lock = Free /\ lock' = s
    /\ Load(s, user) /\ Goto(s, "login")
    /\ UNCHANGED <<user, tokens, now, minted, history>>

Issue(purpose, ver) ==
    tokens' = tokens \cup {[purpose |-> purpose, ver |-> ver, epoch |-> epoch]}

\* Without MFA nothing is committed: the token is made under the lock.
LoginWithPassword(s) ==
    /\ pc[s] = "login" /\ ~row[s].mfa_enabled
    /\ Issue("access", row[s].auth_version)
    /\ lock' = Free
    /\ Return(s)
    /\ UNCHANGED <<user, now, minted, history>>

\* With MFA the used code is committed, which ends the lock and expires the
\* loaded row.
LoginWithCode(s, code) ==
    /\ pc[s] = "login"
    /\ verify_mfa_challenge(row[s], code)
    /\ LET u == Consume(row[s], code)
       IN user' = [user EXCEPT !.codes = u.codes,
                               !.last_used_step = u.last_used_step]
    /\ lock' = Free
    /\ replayed' = replayed \cup (spent \cap {code})
    /\ spent' = spent \cup {code}
    /\ Load(s, Absent) /\ Goto(s, "issue")
    /\ UNCHANGED <<tokens, now, minted, epoch, overlapped, confirmed,
                   reconfirmed>>

\* user.auth_version is loaded again for the token.
IssueToken(s) ==
    /\ \/ pc[s] = "issue" /\ Issue("access", user.auth_version)
       \/ /\ pc[s] = "issue_reauth"
          /\ Issue("reauthentication", user.auth_version)
    /\ Return(s)
    /\ UNCHANGED <<user, lock, now, minted, history>>
-----------------------------------------------------------------------------
(***************************************************************************)
(* Requests with a token.  get_current_user loads the row and compares the *)
(* version; enroll, confirm and disable also take a reauthentication token *)
(* (get_reauthenticated_user) and a super admin.                           *)
(***************************************************************************)
Accepted(purpose) ==
    {t \in tokens : t.purpose = purpose /\ t.ver = user.auth_version}

get_current_user(s, request) ==
    /\ pc[s] = "idle" /\ user # Absent
    /\ Accepted("access") # {}
    /\ \/ request \in {"reauthenticate", "password"}
       \/ Accepted("reauthentication") # {} /\ user.role = "SUPER_ADMIN"
    /\ Load(s, user) /\ Goto(s, request)
    /\ UNCHANGED <<user, lock, tokens, now, minted, history>>

\* A right password: an audit row is committed, which expires the loaded row.
record_reauthentication(s) ==
    /\ pc[s] = "reauthenticate"
    /\ Load(s, Absent) /\ Goto(s, "issue_reauth")
    /\ UNCHANGED <<user, lock, tokens, now, minted, history>>

\* The UPDATE of a credential change and its commit.
CommitChange(s, u) ==
    /\ lock = Free
    /\ epoch < MaxChanges
    /\ user' = u
    /\ epoch' = epoch + 1
    /\ overlapped' = (overlapped
                        \/ \E r \in Sessions \ {s} : pc[r] \in Changes)
    /\ Return(s)
    /\ UNCHANGED <<lock, tokens, now>>

\* Mutant: tokens stay valid.
ChangePasswordKeepsVersion(s, new) ==
    /\ pc[s] = "password" /\ new # row[s].password
    /\ CommitChange(s, [user EXCEPT !.password = new])
    /\ UNCHANGED <<minted, usage>>

change_password(s, new) ==
    /\ pc[s] = "password" /\ new # row[s].password
    /\ CommitChange(s, [user EXCEPT !.password = new,
                                    !.auth_version = row[s].auth_version + 1])
    /\ UNCHANGED <<minted, usage>>

start_mfa_enrollment(s) ==
    /\ pc[s] = "enroll" /\ ~row[s].mfa_enabled
    /\ lock = Free
    /\ minted < MaxSecrets /\ minted' = minted + 1
    /\ user' = [user EXCEPT !.pending = minted']
    /\ Return(s)
    /\ UNCHANGED <<lock, tokens, now, history>>

\* Unlocked, and last_used_step is not compared: two requests that loaded the
\* same pending secret may both confirm it.
confirm_mfa_enrollment(s, code) ==
    /\ pc[s] = "confirm" /\ ~row[s].mfa_enabled /\ row[s].pending # 0
    /\ MatchTotp(row[s].pending, -1, code)
    /\ CommitChange(s,
          [user EXCEPT
              !.secret = row[s].pending, !.pending = 0, !.mfa_enabled = TRUE,
              !.last_used_step = code[3],
              !.codes = {<<"code", epoch + 1, n>> : n \in RecoveryCodes},
              !.auth_version = row[s].auth_version + 1])
    /\ confirmed' = confirmed \cup {row[s].pending}
    /\ reconfirmed' = reconfirmed \cup (confirmed \cap {row[s].pending})
    /\ UNCHANGED <<minted, spent, replayed>>

\* Mutant: the last used step stays.
DisableMfaKeepsStep(s, code) ==
    /\ pc[s] = "disable"
    /\ verify_mfa_challenge(row[s], code)
    /\ CommitChange(s,
          [user EXCEPT
              !.mfa_enabled = FALSE, !.secret = 0,
              !.pending = IF row[s].pending = 0 THEN @ ELSE 0,
              !.codes = IF row[s].codes = {} THEN @ ELSE {},
              !.auth_version = row[s].auth_version + 1])
    /\ UNCHANGED <<minted, usage>>

\* Columns that had their new value when they were loaded are not written.
disable_mfa(s, code) ==
    /\ pc[s] = "disable"
    /\ verify_mfa_challenge(row[s], code)
    /\ CommitChange(s,
          [user EXCEPT
              !.mfa_enabled = FALSE, !.secret = 0, !.last_used_step = -1,
              !.pending = IF row[s].pending = 0 THEN @ ELSE 0,
              !.codes = IF row[s].codes = {} THEN @ ELSE {},
              !.auth_version = row[s].auth_version + 1])
    /\ UNCHANGED <<minted, usage>>

\* Mutant: a refused login keeps its connection, and the row lock with it.
EndRequestKeepsLock(s) ==
    /\ pc[s] # "idle"
    /\ Return(s)
    /\ UNCHANGED <<user, lock, tokens, now, minted, history>>

\* A request is refused (wrong password, code or state) or dies; get_db closes
\* its session, which rolls back and releases the lock.
EndRequest(s) ==
    /\ pc[s] # "idle"
    /\ lock' = IF lock = s THEN Free ELSE lock
    /\ Return(s)
    /\ UNCHANGED <<user, tokens, now, minted, history>>

Tick ==
    /\ now < MaxStep
    /\ now' = now + 1
    /\ UNCHANGED <<user, lock, tokens, minted, sessvars, history>>
-----------------------------------------------------------------------------
SessionStep(s) ==
    \/ create_user(s) \/ bootstrap_super_admin(s)
    \/ LockUser(s) \/ LoginWithPassword(s) \/ IssueToken(s)
    \/ \E request \in Changes \cup {"reauthenticate", "enroll"} :
          get_current_user(s, request)
    \/ record_reauthentication(s)
    \/ \E new \in Passwords : change_password(s, new)
    \/ start_mfa_enrollment(s)
    \/ \E code \in Presentable :
          \/ LoginWithCode(s, code)
          \/ confirm_mfa_enrollment(s, code)
          \/ disable_mfa(s, code)
    \/ EndRequest(s)

Next == Tick \/ \E s \in Sessions : SessionStep(s)

Spec == Init /\ [][Next]_vars
-----------------------------------------------------------------------------
(***************************************************************************)
(* Properties.                                                             *)
(***************************************************************************)
\* No login is accepted with a recovery code another login used, nor with a
\* TOTP step of a secret another login used, however logins overlap each other
\* and the unlocked requests, unless that secret was confirmed twice (mfa.py:85
\* writes the step of the later confirm over the last step used).
SingleUse == \A c \in replayed : c[1] = "totp" /\ c[2] \in reconfirmed

\* The MFA columns stay together although every request writes only some of
\* them, decided on a row it loaded before others committed: MFA is on exactly
\* when there is a secret and exactly when a step was used.
MfaColumnsAgree ==
    user # Absent =>
        /\ user.mfa_enabled <=> user.secret # 0
        /\ user.mfa_enabled <=> user.last_used_step # -1

\* A credential change revokes the tokens handed out before it: as long as no
\* two changes overlapped, every token that is accepted was made after the last
\* one.  (Two that overlap write the same auth_version.)
ChangeRevokesTokens ==
    user # Absent /\ ~overlapped =>
        \A t \in tokens : t.ver = user.auth_version => t.epoch = epoch

\* Whoever comes first creates the user: no later registration or bootstrap,
\* however the lookups interleave, replaces the row or changes its role.
UserIsCreatedOnce ==
    [][user # Absent => user' # Absent /\ user'.role = user.role]_vars
=============================================================================
