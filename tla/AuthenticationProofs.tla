------------------------ MODULE AuthenticationProofs ------------------------
(***************************************************************************)
(* The safety properties of Authentication, proved for any number of       *)
(* concurrent requests, passwords and recovery codes, and for any bounds.  *)
(*                                                                         *)
(* Only login reads the row under a lock, so only its row is known to be   *)
(* the current one when it writes; that makes a code single-use, as        *)
(* long as no second confirm of a secret turns its last used step back.    *)
(* Every other request writes from a row that may be stale, and the proof  *)
(* has to say what survives: the MFA columns, because each request writes  *)
(* all three of them or none, and auth_version as long as no two changes   *)
(* overlapped.                                                             *)
(***************************************************************************)
EXTENDS Authentication, TLAPS

-----------------------------------------------------------------------------
(***************************************************************************)
(* The inductive invariant.                                                *)
(***************************************************************************)
\* The requests that decide on a row they loaded without a lock.
Loading == Changes \cup {"enroll"}

\* A request that is past its first lookup of the user.
Known == PCs \ ({"idle"} \cup UserRole)

\* A login works on the current row, since it holds the lock.
LoginOK == \A s \in Sessions : pc[s] = "login" => lock = s /\ row[s] = user

Loaded ==
    \A s \in Sessions :
        /\ pc[s] \in Known => user # Absent
        /\ pc[s] \in Loading => row[s] \in User

\* The part of TypeOK about the histories of codes and secrets.
UsageType ==
    /\ confirmed \subseteq Nat /\ reconfirmed \subseteq Nat
    /\ spent \subseteq Code /\ replayed \subseteq Code

\* No code that may still be accepted was spent, but for the TOTP steps of a
\* secret that was confirmed twice.
CodesOK ==
    /\ \A c \in spent : c[1] = "code" => c[2] <= epoch
    /\ \A c \in spent : c[1] = "totp" => c[2] # 0 /\ c[2] \in confirmed
    /\ user # Absent =>
          /\ user.secret # 0 => user.secret \in confirmed
          /\ \A c \in user.codes : c[1] = "code" /\ c[2] <= epoch /\ c \notin spent
          /\ \A c \in spent :
                c[1] = "totp" /\ c[2] = user.secret /\ c[2] \notin reconfirmed
                    => c[3] <= user.last_used_step

\* Until two changes overlap, auth_version counts the changes.
VersionsOK ==
    /\ user = Absent => epoch = 0
    /\ ~overlapped /\ user # Absent => user.auth_version = epoch
    /\ ~overlapped => \A t \in tokens : t.ver = t.epoch
    /\ ~overlapped =>
          \A s \in Sessions : pc[s] \in Changes => row[s].auth_version = epoch

IndInv ==
    /\ TypeOK /\ now >= 1 /\ LoginOK /\ Loaded
    /\ MfaColumnsAgree /\ CodesOK /\ VersionsOK /\ SingleUse
-----------------------------------------------------------------------------
\* There is no user, no token and no request yet.
LEMMA InitInv == Init => IndInv
  <1> SUFFICES ASSUME Init PROVE IndInv
    OBVIOUS
  <1>1. TypeOK
    <2>1. pc \in [Sessions -> PCs] /\ row \in [Sessions -> User \cup {Absent}]
      BY DEF Init, PCs
    <2>2. overlapped \in BOOLEAN
      BY DEF Init
    <2> QED
      BY <2>1, <2>2 DEF Init, TypeOK
  <1>2. LoginOK /\ Loaded /\ MfaColumnsAgree /\ SingleUse
    BY DEF Init, LoginOK, Loaded, MfaColumnsAgree, SingleUse, Loading, Known,
           Changes
  <1>3. CodesOK /\ VersionsOK
    BY DEF Init, CodesOK, VersionsOK, Changes
  <1> QED
    BY <1>1, <1>2, <1>3 DEF IndInv, Init

\* A request moves on with a row; the others stay where they are.
LEMMA Moves ==
    ASSUME TypeOK, NEW s \in Sessions, NEW label \in PCs,
           NEW value \in User \cup {Absent}, Goto(s, label), Load(s, value)
    PROVE  /\ pc'[s] = label /\ row'[s] = value
           /\ \A r \in Sessions \ {s} : pc'[r] = pc[r] /\ row'[r] = row[r]
           /\ pc' \in [Sessions -> PCs]
           /\ row' \in [Sessions -> User \cup {Absent}]
  BY DEF TypeOK, Goto, Load

\* A step that leaves the user row alone: a request loads it, ends, takes or
\* releases the lock, or hands out a token.
LEMMA LocalStep ==
    ASSUME IndInv, NEW s \in Sessions, NEW label \in PCs,
           NEW value \in User \cup {Absent}, Goto(s, label), Load(s, value),
           UNCHANGED <<user, now, minted, history>>,
           \/ UNCHANGED lock /\ pc[s] # "login" /\ label # "login"
           \/ lock = s /\ lock' = Free /\ label # "login"
           \/ lock = Free /\ lock' = s /\ label = "login" /\ value = user,
           label \in Known => user # Absent,
           label \in Loading => value \in User,
           label \in Changes => value = user,
           tokens' \subseteq Token,
           ~overlapped => \A t \in tokens' : t.ver = t.epoch
    PROVE  IndInv'
  <1>1. /\ TypeOK /\ LoginOK /\ Loaded /\ MfaColumnsAgree /\ CodesOK
        /\ VersionsOK /\ SingleUse /\ now >= 1
    BY DEF IndInv
  <1>2. /\ pc'[s] = label /\ row'[s] = value
        /\ \A r \in Sessions \ {s} : pc'[r] = pc[r] /\ row'[r] = row[r]
        /\ pc' \in [Sessions -> PCs] /\ row' \in [Sessions -> User \cup {Absent}]
    BY <1>1, Moves
  <1>3. LoginOK'
    BY <1>1, <1>2, AbsenceAssumption DEF LoginOK
  <1>4. TypeOK'
    <2>1. lock' \in {r \in Sessions : pc'[r] = "login"} \cup {Free}
      BY <1>1, <1>2, AbsenceAssumption DEF TypeOK
    <2> QED
      BY <1>1, <1>2, <2>1 DEF TypeOK, history, usage
  <1>5. Loaded'
    BY <1>1, <1>2 DEF Loaded, history
  <1>6. MfaColumnsAgree' /\ CodesOK' /\ SingleUse' /\ now' >= 1
    BY <1>1 DEF MfaColumnsAgree, CodesOK, SingleUse, history, usage
  <1>7. VersionsOK'
    <2>1. ASSUME NEW r \in Sessions, ~overlapped, pc'[r] \in Changes
          PROVE  row'[r].auth_version = epoch
      <3>1. CASE r = s
        <4>1. user # Absent
          BY <1>2, <2>1, <3>1 DEF Known, Changes, PCs, UserRole
        <4> QED
          BY <1>1, <1>2, <2>1, <3>1, <4>1 DEF VersionsOK
      <3>2. CASE r # s
        BY <1>1, <1>2, <2>1, <3>2 DEF VersionsOK
      <3> QED
        BY <3>1, <3>2
    <2> QED
      BY <1>1, <2>1 DEF VersionsOK, history
  <1> QED
    BY <1>1, <1>3, <1>4, <1>5, <1>6, <1>7 DEF IndInv

\* A step that writes the row: no login holds it, and what the step leaves
\* agrees with the histories.
LEMMA WriteStep ==
    ASSUME IndInv, NEW s \in Sessions, NEW label \in {"idle", "issue"},
           Goto(s, label), Load(s, Absent), user' \in User, lock' = Free,
           \A r \in Sessions \ {s} : pc[r] # "login",
           UNCHANGED <<now, tokens>>, minted' \in Nat, epoch' \in Nat,
           overlapped' \in BOOLEAN, UsageType', SingleUse',
           MfaColumnsAgree', CodesOK',
           ~overlapped' =>
               /\ ~overlapped /\ user'.auth_version = epoch'
               /\ \A r \in Sessions \ {s} : pc[r] \in Changes => epoch' = epoch
    PROVE  IndInv'
  <1>1. TypeOK /\ Loaded /\ VersionsOK /\ now >= 1 /\ label \in PCs
    BY DEF IndInv, PCs
  <1>2. /\ pc'[s] = label /\ row'[s] = Absent
        /\ \A r \in Sessions \ {s} : pc'[r] = pc[r] /\ row'[r] = row[r]
        /\ pc' \in [Sessions -> PCs] /\ row' \in [Sessions -> User \cup {Absent}]
    BY <1>1, Moves
  <1>3. TypeOK' /\ now' >= 1
    BY <1>1, <1>2 DEF TypeOK, UsageType
  <1>4. LoginOK' /\ Loaded'
    BY <1>1, <1>2, AbsenceAssumption DEF LoginOK, Loaded, Loading, Changes
  <1>5. VersionsOK'
    <2>1. user' # Absent /\ pc'[s] \notin Changes
      BY <1>2, AbsenceAssumption DEF Changes
    <2>2. \A r \in Sessions \ {s} : ~overlapped' /\ pc'[r] \in Changes =>
              row'[r].auth_version = epoch'
      BY <1>1, <1>2 DEF VersionsOK
    <2>3. ~overlapped' => \A t \in tokens' : t.ver = t.epoch
      BY <1>1 DEF VersionsOK
    <2> QED
      BY <2>1, <2>2, <2>3 DEF VersionsOK
  <1> QED
    BY <1>3, <1>4, <1>5 DEF IndInv
-----------------------------------------------------------------------------
(***************************************************************************)
(* Steps that leave the row alone.                                         *)
(***************************************************************************)
LEMMA RequestFacts ==
    ASSUME IndInv, NEW s \in Sessions
    PROVE  /\ TypeOK /\ pc[s] \in PCs /\ row[s] \in User \cup {Absent}
           /\ user \in User \cup {Absent} /\ Absent \notin User
           /\ pc[s] \in Known => user \in User
           /\ pc[s] = "login" => lock = s /\ row[s] = user
           /\ pc[s] \in Loading => row[s] \in User
           /\ "idle" \in PCs /\ "idle" \notin Known /\ "idle" \notin Loading
           /\ "idle" \notin Changes
  BY AbsenceAssumption DEF IndInv, TypeOK, Loaded, LoginOK, PCs, Known, Loading,
     Changes, UserRole

\* A request ends, giving back the lock if it has it, without writing the row.
LEMMA ReturnInv ==
    ASSUME IndInv, NEW s \in Sessions, Return(s),
           UNCHANGED <<user, now, minted, history>>,
           \/ UNCHANGED lock /\ pc[s] # "login"
           \/ lock = s /\ lock' = Free,
           tokens' \subseteq Token,
           ~overlapped => \A t \in tokens' : t.ver = t.epoch
    PROVE  IndInv'
  BY RequestFacts, LocalStep DEF Return

\* A token that is handed out carries the version of the row as it is now.
LEMMA IssueInv ==
    ASSUME IndInv, NEW s \in Sessions, NEW purpose \in {"access", "reauthentication"},
           user \in User, NEW ver, ver = user.auth_version,
           Issue(purpose, ver), Return(s),
           UNCHANGED <<user, now, minted, history>>,
           \/ UNCHANGED lock /\ pc[s] # "login"
           \/ lock = s /\ lock' = Free
    PROVE  IndInv'
  <1>1. TypeOK /\ VersionsOK /\ epoch \in Nat /\ user # Absent
    BY AbsenceAssumption DEF IndInv, TypeOK
  <1> DEFINE new == [purpose |-> purpose, ver |-> ver, epoch |-> epoch]
  <1>2. ver \in Nat
    BY DEF User
  <1>3. new \in Token /\ new.ver = ver /\ new.epoch = epoch
    BY <1>1, <1>2 DEF Token
  <1>4. tokens' = tokens \cup {new}
    BY DEF Issue
  <1> HIDE DEF new
  <1>5. tokens' \subseteq Token
    BY <1>1, <1>3, <1>4 DEF TypeOK
  <1>6. ~overlapped => \A t \in tokens' : t.ver = t.epoch
    BY <1>1, <1>3, <1>4 DEF VersionsOK
  <1> QED
    BY <1>5, <1>6, ReturnInv

\* Steps that read the row or issue a token, and write no row.
LEMMA ReadersInv ==
    ASSUME IndInv, NEW s \in Sessions,
           \/ \E role \in UserRole : FindExisting(s, role)
           \/ LockUser(s) \/ LoginWithPassword(s) \/ IssueToken(s)
           \/ \E request \in Changes \cup {"reauthenticate", "enroll"} :
                 get_current_user(s, request)
           \/ record_reauthentication(s) \/ EndRequest(s)
    PROVE  IndInv'
  <1>1. /\ TypeOK /\ row[s] \in User \cup {Absent} /\ user \in User \cup {Absent}
        /\ Absent \notin User
        /\ pc[s] = "login" => lock = s /\ row[s] = user /\ user \in User
        /\ tokens \subseteq Token /\ Free \notin Sessions
        /\ ~overlapped => \A t \in tokens : t.ver = t.epoch
    BY RequestFacts, AbsenceAssumption DEF TypeOK, IndInv, VersionsOK, Known,
       PCs, UserRole
  <1>2. CASE \E role \in UserRole : FindExisting(s, role)
    <2> PICK role \in UserRole : FindExisting(s, role)
      BY <1>2
    <2>1. /\ role \in PCs /\ role \notin Known /\ role \notin Loading
          /\ role \notin Changes /\ role # "login" /\ pc[s] = "idle"
      BY DEF PCs, Known, Loading, Changes, UserRole, FindExisting
    <2>2. Load(s, row[s])
      BY <1>1 DEF FindExisting, Load, TypeOK
    <2> QED
      BY <1>1, <2>1, <2>2, LocalStep DEF FindExisting
  <1>3. CASE LockUser(s)
    <2>1. /\ "login" \in PCs /\ "login" \notin Loading /\ "login" \notin Changes
      BY DEF PCs, Loading, Changes
    <2> QED
      BY <1>1, <1>3, <2>1, LocalStep DEF LockUser
  <1>4. CASE LoginWithPassword(s)
    BY <1>1, <1>4, IssueInv DEF LoginWithPassword
  <1>5. CASE IssueToken(s)
    <2>1. pc[s] \in {"issue", "issue_reauth"}
      BY <1>5 DEF IssueToken
    <2>2. user \in User /\ pc[s] # "login"
      BY <2>1, RequestFacts DEF Known, PCs, UserRole
    <2>3. PICK ver : ver = user.auth_version
      OBVIOUS
    <2> QED
      BY <1>5, <2>2, <2>3, IssueInv DEF IssueToken
  <1>6. CASE \E request \in Changes \cup {"reauthenticate", "enroll"} :
                get_current_user(s, request)
    <2> PICK request \in Changes \cup {"reauthenticate", "enroll"} :
            get_current_user(s, request)
      BY <1>6
    <2>1. request \in PCs /\ request # "login" /\ pc[s] = "idle"
      BY DEF PCs, Changes, get_current_user
    <2> QED
      BY <1>1, <2>1, LocalStep DEF get_current_user
  <1>7. CASE record_reauthentication(s)
    <2>1. /\ "issue_reauth" \in PCs /\ "issue_reauth" \notin Loading
          /\ "issue_reauth" \notin Changes /\ pc[s] = "reauthenticate"
      BY <1>7 DEF PCs, Loading, Changes, record_reauthentication
    <2>2. user # Absent
      BY <1>1, <2>1, RequestFacts DEF Known, PCs, UserRole
    <2> QED
      BY <1>1, <1>7, <2>1, <2>2, LocalStep DEF record_reauthentication
  <1>8. CASE EndRequest(s)
    <2>1. (UNCHANGED lock /\ pc[s] # "login") \/ (lock = s /\ lock' = Free)
      BY <1>1, <1>8 DEF EndRequest
    <2> QED
      BY <1>1, <1>8, <2>1, ReturnInv DEF EndRequest
  <1> QED
    BY <1>2, <1>3, <1>4, <1>5, <1>6, <1>7, <1>8
-----------------------------------------------------------------------------
(***************************************************************************)
(* Steps that write the row.                                               *)
(***************************************************************************)
LEMMA NobodyLogsIn ==
    ASSUME IndInv, lock = Free
    PROVE  \A r \in Sessions : pc[r] # "login"
  BY AbsenceAssumption DEF IndInv, LoginOK

\* Nobody can present a recovery code of a set not yet generated, or a code of
\* no secret.
LEMMA PresentableFacts ==
    ASSUME IndInv, NEW code \in Presentable
    PROVE  /\ code \in Code /\ code[3] \in Nat
           /\ code[1] = "totp" => code[2] # 0
           /\ code[1] = "code" => code[2] <= epoch
  <1>1. now \in Nat /\ now >= 1 /\ minted \in Nat /\ epoch \in Nat
    BY DEF IndInv, TypeOK
  <1>2. CASE code \in {"totp"} \X (1..minted) \X ((now - 1)..(now + 1))
    <2>1. PICK a \in 1..minted, b \in (now - 1)..(now + 1) : code = <<"totp", a, b>>
      BY <1>2
    <2>2. a \in Nat /\ b \in Nat /\ a # 0
      BY <1>1
    <2> QED
      BY <2>1, <2>2 DEF Code
  <1>3. CASE code \in {"code"} \X (1..epoch) \X RecoveryCodes
    <2>1. PICK a \in 1..epoch, b \in RecoveryCodes : code = <<"code", a, b>>
      BY <1>3
    <2>2. a \in Nat /\ b \in Nat /\ a <= epoch
      BY <1>1, AuthenticationAssumption
    <2> QED
      BY <2>1, <2>2 DEF Code
  <1> QED
    BY <1>2, <1>3 DEF Presentable

\* A registration or bootstrap inserts the user, or loses against another.
LEMMA InsertInv ==
    ASSUME IndInv, NEW s \in Sessions, NEW role \in UserRole,
           NEW password \in Passwords, InsertUser(s, role, password)
    PROVE  IndInv'
  <1>1. /\ TypeOK /\ CodesOK /\ VersionsOK /\ SingleUse
        /\ Return(s) /\ UNCHANGED <<lock, tokens, now, minted, history>>
        /\ pc[s] # "login"
    BY DEF IndInv, InsertUser, UserRole
  <1>2. CASE user # Absent /\ UNCHANGED user
    BY <1>1, <1>2, ReturnInv DEF TypeOK, VersionsOK, SingleUse
  <1>3. CASE user = Absent /\ user' = NewUser(role, password)
    <2> DEFINE u == NewUser(role, password)
    <2>1. /\ u \in User /\ u.auth_version = 0 /\ ~u.mfa_enabled /\ u.secret = 0
          /\ u.last_used_step = -1 /\ u.codes = {}
      BY DEF NewUser, User
    <2>2. user' = u
      BY <1>3
    <2> HIDE DEF u
    <2>3. (\A r \in Sessions : pc[r] \notin Known) /\ lock = Free
      BY <1>1, <1>3 DEF IndInv, Loaded, TypeOK, Known, PCs, UserRole
    <2>4. \A r \in Sessions : pc[r] # "login" /\ pc[r] \notin Changes
      BY <2>3 DEF Known, PCs, UserRole, Changes
    <2>5. MfaColumnsAgree' /\ CodesOK'
      BY <1>1, <2>1, <2>2 DEF MfaColumnsAgree, CodesOK, history, usage
    <2>6. /\ minted' \in Nat /\ epoch' \in Nat /\ overlapped' \in BOOLEAN
          /\ UsageType' /\ SingleUse'
      BY <1>1 DEF TypeOK, SingleUse, UsageType, history, usage
    <2>7. ~overlapped' => ~overlapped /\ user'.auth_version = epoch'
      BY <1>1, <1>3, <2>1, <2>2 DEF VersionsOK, history
    <2> QED
      BY <1>1, <2>1, <2>2, <2>3, <2>4, <2>5, <2>6, <2>7, WriteStep DEF Return
  <1> QED
    BY <1>2, <1>3 DEF InsertUser

\* What a credential change does but for the columns it writes.
LEMMA ChangeInv ==
    ASSUME IndInv, NEW s \in Sessions, pc[s] \in Changes, NEW u \in User,
           CommitChange(s, u), u.auth_version = row[s].auth_version + 1,
           UNCHANGED <<minted, spent, replayed>>, UsageType',
           confirmed \subseteq confirmed', reconfirmed \subseteq reconfirmed',
           u.secret # 0 => u.secret \in confirmed',
           u.mfa_enabled <=> u.secret # 0,
           u.mfa_enabled <=> u.last_used_step # -1,
           \A c \in u.codes : c[1] = "code" /\ c[2] <= epoch + 1 /\ c \notin spent,
           \A c \in spent :
               c[1] = "totp" /\ c[2] = u.secret /\ c[2] \notin reconfirmed'
                   => c[3] <= u.last_used_step
    PROVE  IndInv'
  <1>1. /\ TypeOK /\ CodesOK /\ VersionsOK /\ SingleUse
        /\ Return(s) /\ UNCHANGED <<lock, tokens, now>> /\ lock = Free
        /\ user' = u /\ epoch' = epoch + 1 /\ epoch \in Nat
        /\ overlapped' = (overlapped \/ \E r \in Sessions \ {s} : pc[r] \in Changes)
    BY DEF IndInv, CommitChange, TypeOK
  <1>2. /\ minted' \in Nat /\ epoch' \in Nat /\ overlapped' \in BOOLEAN
        /\ SingleUse'
    <2>1. minted' \in Nat /\ epoch' \in Nat /\ overlapped' \in BOOLEAN
      BY <1>1 DEF TypeOK
    <2>2. SingleUse'
      BY <1>1 DEF SingleUse
    <2> QED
      BY <2>1, <2>2
  <1>3. \A c \in spent : c[1] = "code" => c[2] <= epoch + 1
    <2> SUFFICES ASSUME NEW c \in spent, c[1] = "code" PROVE c[2] <= epoch + 1
      OBVIOUS
    <2>1. c[2] <= epoch /\ c[2] \in Nat
      BY <1>1 DEF CodesOK, TypeOK, Code
    <2> QED
      BY <1>1, <2>1
  <1>4. MfaColumnsAgree' /\ CodesOK'
    BY <1>1, <1>3 DEF MfaColumnsAgree, CodesOK
  <1>5. ~overlapped' =>
            /\ ~overlapped /\ user'.auth_version = epoch'
            /\ \A r \in Sessions \ {s} : pc[r] \in Changes => epoch' = epoch
    BY <1>1 DEF VersionsOK
  <1> QED
    BY <1>1, <1>2, <1>4, <1>5, NobodyLogsIn, WriteStep DEF Return

\* A password change writes hash and version from the row it loaded.
LEMMA PasswordInv ==
    ASSUME IndInv, NEW s \in Sessions, NEW new \in Passwords,
           change_password(s, new)
    PROVE  IndInv'
  <1> DEFINE u == [user EXCEPT !.password = new,
                               !.auth_version = row[s].auth_version + 1]
  <1>1. /\ pc[s] \in Changes /\ pc[s] \in Known /\ pc[s] \in Loading
        /\ CommitChange(s, u) /\ UNCHANGED <<minted, usage>>
    BY DEF change_password, Changes, Known, PCs, Loading, UserRole
  <1>2. /\ user \in User /\ row[s] \in User /\ user # Absent
        /\ MfaColumnsAgree /\ CodesOK /\ epoch \in Nat /\ TypeOK
    BY <1>1, RequestFacts DEF IndInv, TypeOK
  <1>3. row[s].auth_version + 1 \in Nat
    BY <1>2 DEF User
  <1>4. u \in User
    BY <1>2, <1>3 DEF User
  <1>5. /\ u.auth_version = row[s].auth_version + 1
        /\ u.mfa_enabled = user.mfa_enabled /\ u.secret = user.secret
        /\ u.last_used_step = user.last_used_step /\ u.codes = user.codes
    BY <1>2 DEF User
  <1> HIDE DEF u
  <1>6. \A c \in u.codes : c[1] = "code" /\ c[2] <= epoch + 1 /\ c \notin spent
    <2> SUFFICES ASSUME NEW c \in u.codes
                 PROVE  c[1] = "code" /\ c[2] <= epoch + 1 /\ c \notin spent
      OBVIOUS
    <2>1. c[1] = "code" /\ c[2] <= epoch /\ c \notin spent /\ c[2] \in Nat
      BY <1>2, <1>5 DEF CodesOK, User, Code
    <2> QED
      BY <1>2, <2>1
  <1>7. /\ \A c \in spent :
              c[1] = "totp" /\ c[2] = u.secret /\ c[2] \notin reconfirmed'
                  => c[3] <= u.last_used_step
        /\ u.secret # 0 => u.secret \in confirmed'
    BY <1>1, <1>2, <1>5 DEF CodesOK, usage
  <1>8. /\ UsageType' /\ UNCHANGED <<minted, spent, replayed>>
        /\ confirmed \subseteq confirmed' /\ reconfirmed \subseteq reconfirmed'
    BY <1>1, <1>2 DEF TypeOK, UsageType, usage
  <1> QED
    BY <1>1, <1>2, <1>4, <1>5, <1>6, <1>7, <1>8, ChangeInv DEF MfaColumnsAgree

\* An enrolment stores a new secret as the pending one.
LEMMA EnrollInv ==
    ASSUME IndInv, NEW s \in Sessions, start_mfa_enrollment(s)
    PROVE  IndInv'
  <1> DEFINE u == [user EXCEPT !.pending = minted']
  <1>1. /\ pc[s] \in Known /\ pc[s] \notin Changes /\ lock = Free
        /\ UNCHANGED <<lock, tokens, now, history>> /\ Return(s)
        /\ minted' = minted + 1 /\ user' = u
    BY DEF start_mfa_enrollment, Changes, Known, PCs, UserRole
  <1>2. /\ user \in User /\ user # Absent /\ minted \in Nat /\ TypeOK
        /\ MfaColumnsAgree /\ CodesOK /\ VersionsOK /\ SingleUse
    BY <1>1, RequestFacts DEF IndInv, TypeOK
  <1>3. minted' \in Nat
    BY <1>1, <1>2
  <1>4. u \in User
    BY <1>2, <1>3 DEF User
  <1>5. /\ u.auth_version = user.auth_version
        /\ u.mfa_enabled = user.mfa_enabled /\ u.secret = user.secret
        /\ u.last_used_step = user.last_used_step /\ u.codes = user.codes
    BY <1>2 DEF User
  <1> HIDE DEF u
  <1>6. MfaColumnsAgree' /\ CodesOK'
    BY <1>1, <1>2, <1>5 DEF MfaColumnsAgree, CodesOK, history, usage
  <1>7. /\ epoch' \in Nat /\ overlapped' \in BOOLEAN
        /\ UsageType' /\ SingleUse'
    BY <1>1, <1>2 DEF TypeOK, SingleUse, UsageType, history, usage
  <1>8. ~overlapped' => ~overlapped /\ user'.auth_version = epoch' /\ epoch' = epoch
    BY <1>1, <1>2, <1>5 DEF VersionsOK, history
  <1> QED
    BY <1>1, <1>3, <1>4, <1>6, <1>7, <1>8, NobodyLogsIn, WriteStep DEF Return

\* The columns confirm_mfa_enrollment and disable_mfa write.
LEMMA SetColumns ==
    ASSUME NEW u \in User, NEW enabled \in BOOLEAN, NEW secret \in Nat,
           NEW pending \in Nat, NEW last \in Int, NEW codes \in SUBSET Code,
           NEW version \in Nat
    PROVE  /\ [u EXCEPT !.secret = secret, !.pending = pending,
                        !.mfa_enabled = enabled, !.last_used_step = last,
                        !.codes = codes, !.auth_version = version] \in User
           /\ [u EXCEPT !.mfa_enabled = enabled, !.secret = secret,
                        !.last_used_step = last, !.pending = pending,
                        !.codes = codes, !.auth_version = version] \in User
  <1>1. \A v \in User : /\ [v EXCEPT !.secret = secret] \in User
                        /\ [v EXCEPT !.pending = pending] \in User
    BY DEF User
  <1>2. \A v \in User : /\ [v EXCEPT !.mfa_enabled = enabled] \in User
                        /\ [v EXCEPT !.last_used_step = last] \in User
    BY DEF User
  <1>3. \A v \in User : /\ [v EXCEPT !.codes = codes] \in User
                        /\ [v EXCEPT !.auth_version = version] \in User
    BY DEF User
  <1> QED
    BY <1>1, <1>2, <1>3

\* Confirming an enrolment switches MFA on and replaces the recovery codes.
LEMMA ConfirmInv ==
    ASSUME IndInv, NEW s \in Sessions, NEW code \in Presentable,
           confirm_mfa_enrollment(s, code)
    PROVE  IndInv'
  <1> DEFINE fresh == {<<"code", epoch + 1, n>> : n \in RecoveryCodes}
             u == [user EXCEPT
                     !.secret = row[s].pending, !.pending = 0,
                     !.mfa_enabled = TRUE, !.last_used_step = code[3],
                     !.codes = fresh,
                     !.auth_version = row[s].auth_version + 1]
  <1>1. /\ pc[s] \in Changes /\ pc[s] \in Known /\ pc[s] \in Loading
        /\ CommitChange(s, u) /\ UNCHANGED <<minted, spent, replayed>>
        /\ confirmed' = confirmed \cup {row[s].pending} /\ row[s].pending # 0
        /\ reconfirmed' = reconfirmed \cup (confirmed \cap {row[s].pending})
    BY DEF confirm_mfa_enrollment, Changes, Known, PCs, Loading, UserRole
  <1>2. /\ user \in User /\ row[s] \in User /\ CodesOK /\ epoch \in Nat
        /\ UsageType
    BY <1>1, RequestFacts DEF IndInv, TypeOK, UsageType
  <1>3. fresh \subseteq Code
    BY <1>2, AuthenticationAssumption DEF Code
  <1>4. \A c \in fresh : c[1] = "code" /\ c[2] = epoch + 1
    OBVIOUS
  <1> HIDE DEF fresh
  <1>5. row[s].auth_version + 1 \in Nat /\ row[s].pending \in Nat
        /\ code[3] \in Nat
    BY <1>2, PresentableFacts DEF User
  <1>6. u \in User
    <2>1. /\ TRUE \in BOOLEAN /\ 0 \in Nat /\ code[3] \in Int
          /\ fresh \in SUBSET Code
      BY <1>3, <1>5
    <2> QED
      BY <1>2, <1>5, <2>1, SetColumns, Zenon
  <1>7. /\ u.auth_version = row[s].auth_version + 1
        /\ u.mfa_enabled = TRUE /\ u.secret = row[s].pending
        /\ u.last_used_step = code[3] /\ u.codes = fresh
    BY <1>2 DEF User
  <1> HIDE DEF u
  <1>8. \A c \in fresh : c[1] = "code" /\ c[2] <= epoch + 1 /\ c \notin spent
    BY <1>2, <1>4 DEF CodesOK
  <1>9. /\ UsageType' /\ u.secret \in confirmed'
        /\ confirmed \subseteq confirmed' /\ reconfirmed \subseteq reconfirmed'
    BY <1>1, <1>2, <1>5, <1>7 DEF UsageType
  <1>10. \A c \in spent : c[1] = "totp" /\ c[2] = u.secret => c[2] \in reconfirmed'
    BY <1>1, <1>2, <1>7 DEF CodesOK
  <1> QED
    BY <1>1, <1>5, <1>6, <1>7, <1>8, <1>9, <1>10, ChangeInv

\* Disabling MFA clears its columns, and what else it loaded of an enrolment.
LEMMA DisableInv ==
    ASSUME IndInv, NEW s \in Sessions, NEW code, disable_mfa(s, code)
    PROVE  IndInv'
  <1> DEFINE pending == IF row[s].pending = 0 THEN user.pending ELSE 0
             codes == IF row[s].codes = {} THEN user.codes ELSE {}
             u == [user EXCEPT
                     !.mfa_enabled = FALSE, !.secret = 0, !.last_used_step = -1,
                     !.pending = pending, !.codes = codes,
                     !.auth_version = row[s].auth_version + 1]
  <1>1. /\ pc[s] \in Changes /\ pc[s] \in Known /\ pc[s] \in Loading
        /\ CommitChange(s, u) /\ UNCHANGED <<minted, usage>>
    BY DEF disable_mfa, Changes, Known, PCs, Loading, UserRole
  <1>2. /\ user \in User /\ row[s] \in User /\ CodesOK /\ epoch \in Nat
        /\ user # Absent /\ TypeOK
    BY <1>1, RequestFacts DEF IndInv, TypeOK
  <1>3. /\ pending \in Nat /\ codes \subseteq user.codes /\ codes \subseteq Code
        /\ row[s].auth_version + 1 \in Nat
    BY <1>2 DEF User
  <1> HIDE DEF pending, codes
  <1>4. u \in User
    <2>1. /\ FALSE \in BOOLEAN /\ 0 \in Nat /\ -1 \in Int
          /\ codes \in SUBSET Code
      BY <1>3
    <2> QED
      BY <1>2, <1>3, <2>1, SetColumns, Zenon
  <1>5. /\ u.auth_version = row[s].auth_version + 1
        /\ u.mfa_enabled = FALSE /\ u.secret = 0
        /\ u.last_used_step = -1 /\ u.codes = codes
    BY <1>2 DEF User
  <1> HIDE DEF u
  <1>6. \A c \in codes : c[1] = "code" /\ c[2] <= epoch + 1 /\ c \notin spent
    <2> SUFFICES ASSUME NEW c \in codes
                 PROVE  c[1] = "code" /\ c[2] <= epoch + 1 /\ c \notin spent
      OBVIOUS
    <2>1. c[1] = "code" /\ c[2] <= epoch /\ c \notin spent /\ c[2] \in Nat
      BY <1>2, <1>3 DEF CodesOK, Code
    <2> QED
      BY <1>2, <2>1
  <1>7. \A c \in spent : ~(c[1] = "totp" /\ c[2] = u.secret)
    BY <1>2, <1>5 DEF CodesOK
  <1>8. /\ UsageType' /\ UNCHANGED <<minted, spent, replayed>>
        /\ confirmed \subseteq confirmed' /\ reconfirmed \subseteq reconfirmed'
    BY <1>1, <1>2 DEF TypeOK, UsageType, usage
  <1> QED
    BY <1>1, <1>4, <1>5, <1>6, <1>7, <1>8, ChangeInv

\* The only step that accepts a code.  It holds the lock, so the row it checked
\* is the row it writes, and a code that passes is not among those spent unless
\* its secret was confirmed twice.
LEMMA LoginInv ==
    ASSUME IndInv, NEW s \in Sessions, NEW code \in Presentable,
           LoginWithCode(s, code)
    PROVE  IndInv'
  <1>1. /\ pc[s] = "login" /\ verify_mfa_challenge(row[s], code)
        /\ lock' = Free /\ replayed' = replayed \cup (spent \cap {code})
        /\ spent' = spent \cup {code} /\ Load(s, Absent) /\ Goto(s, "issue")
        /\ UNCHANGED <<tokens, now, minted, epoch, overlapped, confirmed,
                       reconfirmed>>
    BY DEF LoginWithCode
  <1>2. /\ TypeOK /\ CodesOK /\ VersionsOK /\ SingleUse /\ MfaColumnsAgree
        /\ lock = s /\ row[s] = user /\ user \in User /\ user # Absent
        /\ \A r \in Sessions \ {s} : pc[r] # "login"
    BY <1>1, RequestFacts DEF IndInv, LoginOK, Known, PCs, UserRole
  <1>3. /\ code \in Code /\ code[3] \in Nat /\ (code[1] = "totp" => code[2] # 0)
        /\ (code[1] = "code" => code[2] <= epoch)
    BY PresentableFacts
  <1>4. user.mfa_enabled /\ user.last_used_step \in Int /\ user.codes \subseteq Code
    BY <1>1, <1>2 DEF verify_mfa_challenge, User
  <1>5. PICK codes, last :
            /\ user' = [user EXCEPT !.codes = codes, !.last_used_step = last]
            /\ \/ /\ code \in user.codes /\ codes = user.codes \ {code}
                  /\ last = user.last_used_step
               \/ /\ code \notin user.codes /\ codes = user.codes
                  /\ last = code[3] /\ last > user.last_used_step
                  /\ code[1] = "totp" /\ code[2] = user.secret
    <2>1. CASE code \in user.codes
      <3>1. Consume(user, code) = [user EXCEPT !.codes = user.codes \ {code}]
        BY <2>1 DEF Consume
      <3>2. /\ Consume(user, code).codes = user.codes \ {code}
            /\ Consume(user, code).last_used_step = user.last_used_step
        BY <1>2, <3>1 DEF User
      <3> QED
        BY <1>2, <2>1, <3>2 DEF LoginWithCode
    <2>2. CASE code \notin user.codes
      <3>1. Consume(user, code) = [user EXCEPT !.last_used_step = code[3]]
        BY <2>2 DEF Consume
      <3>2. /\ Consume(user, code).codes = user.codes
            /\ Consume(user, code).last_used_step = code[3]
        BY <1>2, <3>1 DEF User
      <3>3. /\ code[3] > user.last_used_step
            /\ code[1] = "totp" /\ code[2] = user.secret
        BY <1>1, <1>2, <2>2 DEF verify_mfa_challenge, MatchTotp
      <3> QED
        BY <1>2, <2>2, <3>2, <3>3 DEF LoginWithCode
    <2> QED
      BY <2>1, <2>2
  <1>6. codes \subseteq user.codes /\ last \in Int /\ last # -1
        /\ user.last_used_step <= last
    BY <1>2, <1>3, <1>4, <1>5 DEF MfaColumnsAgree
  <1>7. /\ user' \in User /\ user'.codes = codes /\ user'.last_used_step = last
        /\ user'.secret = user.secret /\ user'.mfa_enabled = user.mfa_enabled
        /\ user'.auth_version = user.auth_version
    BY <1>2, <1>4, <1>5, <1>6 DEF User
  <1>8. code \in spent => code[1] = "totp" /\ code[2] \in reconfirmed
    <2>1. CASE code \in user.codes
      BY <1>2, <2>1 DEF CodesOK
    <2>2. CASE code \notin user.codes
      <3>1. code[3] > user.last_used_step /\ code[1] = "totp"
            /\ code[2] = user.secret
        BY <1>5, <2>2
      <3>2. code \in spent /\ code[2] \notin reconfirmed
                => code[3] <= user.last_used_step
        BY <1>2, <3>1 DEF CodesOK
      <3> QED
        BY <1>3, <1>4, <3>1, <3>2
    <2> QED
      BY <2>1, <2>2
  <1>9. MfaColumnsAgree'
    BY <1>2, <1>4, <1>6, <1>7 DEF MfaColumnsAgree
  <1>10. CodesOK'
    <2>1. \A c \in spent' : c[1] = "code" => c[2] <= epoch
      BY <1>1, <1>2, <1>3 DEF CodesOK
    <2>2. \A c \in spent' : c[1] = "totp" => c[2] # 0 /\ c[2] \in confirmed
      BY <1>1, <1>2, <1>3, <1>5 DEF CodesOK
    <2>3. \A c \in codes : c[1] = "code" /\ c[2] <= epoch /\ c \notin spent'
      BY <1>1, <1>2, <1>5, <1>6 DEF CodesOK
    <2>4. ASSUME NEW c \in spent', c[1] = "totp", c[2] = user.secret,
                 c[2] \notin reconfirmed
          PROVE  c[3] <= last
      <3>1. CASE c = code
        <4>1. code \notin user.codes
          BY <1>2, <2>4, <3>1 DEF CodesOK
        <4> QED
          BY <1>3, <1>5, <3>1, <4>1
      <3>2. CASE c \in spent
        <4>1. c[3] <= user.last_used_step /\ c[3] \in Nat
          BY <1>2, <2>4, <3>2 DEF CodesOK, TypeOK, Code
        <4> QED
          BY <1>4, <1>6, <4>1
      <3> QED
        BY <1>1, <3>1, <3>2
    <2> QED
      BY <1>1, <1>2, <1>7, <2>1, <2>2, <2>3, <2>4 DEF CodesOK
  <1>11. /\ minted' \in Nat /\ epoch' \in Nat /\ overlapped' \in BOOLEAN
         /\ UsageType' /\ SingleUse'
    BY <1>1, <1>2, <1>3, <1>8 DEF TypeOK, UsageType, SingleUse
  <1>12. ~overlapped' => ~overlapped /\ user'.auth_version = epoch' /\ epoch' = epoch
    BY <1>1, <1>2, <1>7 DEF VersionsOK
  <1> QED
    BY <1>1, <1>2, <1>7, <1>9, <1>10, <1>11, <1>12, WriteStep
-----------------------------------------------------------------------------
(***************************************************************************)
(* The invariant is inductive, and what follows from it.                   *)
(***************************************************************************)
LEMMA NextInv == IndInv /\ [Next]_vars => IndInv'
  <1> SUFFICES ASSUME IndInv, [Next]_vars PROVE IndInv'
    OBVIOUS
  <1>1. CASE Tick \/ UNCHANGED vars
    <2>1. /\ UNCHANGED <<user, lock, tokens, minted, sessvars, history>>
          /\ now' \in {now, now + 1} /\ now \in Nat /\ now >= 1
      BY <1>1 DEF Tick, vars, IndInv, TypeOK
    <2>2. TypeOK' /\ now' >= 1
      BY <2>1 DEF IndInv, TypeOK, sessvars, history, usage
    <2>3. LoginOK' /\ Loaded' /\ MfaColumnsAgree' /\ CodesOK' /\ SingleUse'
      BY <2>1 DEF IndInv, LoginOK, Loaded, MfaColumnsAgree, CodesOK, SingleUse,
                  sessvars, history, usage
    <2>4. VersionsOK'
      BY <2>1 DEF IndInv, VersionsOK, sessvars, history
    <2> QED
      BY <2>2, <2>3, <2>4 DEF IndInv
  <1>2. ASSUME NEW s \in Sessions, SessionStep(s) PROVE IndInv'
    <2>1. "NORMAL_USER" \in UserRole /\ "SUPER_ADMIN" \in UserRole
      BY DEF UserRole
    <2> QED
      BY <1>2, <2>1, ReadersInv, InsertInv, PasswordInv, EnrollInv, ConfirmInv,
         DisableInv, LoginInv
      DEF SessionStep, create_user, bootstrap_super_admin
  <1> QED
    BY <1>1, <1>2 DEF Next

\* Every reachable state satisfies the inductive invariant: a login sees the
\* current row, whatever the unlocked requests hold.
THEOREM Invariance == Spec => []IndInv
  BY InitInv, NextInv, PTL DEF Spec

\* No reachable state leaves the types of the user row, the tokens and the
\* rows the requests have loaded, and only a login holds the row lock.
THEOREM TypeCorrectness == Spec => []TypeOK
  <1>1. IndInv => TypeOK
    BY DEF IndInv
  <1> QED
    BY <1>1, Invariance, PTL

\* verify_mfa_challenge under the row lock of login accepts no recovery code
\* twice, and no TOTP step of a secret twice unless two requests confirmed that
\* secret (confirm_mfa_enrollment takes no lock), however many logins and
\* unlocked enrolments, disablings and password changes run at once.
THEOREM CodesAreSingleUse == Spec => []SingleUse
  <1>1. IndInv => SingleUse
    BY DEF IndInv
  <1> QED
    BY <1>1, Invariance, PTL

\* mfa_enabled, mfa_secret and mfa_last_used_step stay together although
\* confirm_mfa_enrollment and disable_mfa decide on stale rows.
THEOREM ColumnsAgree == Spec => []MfaColumnsAgree
  <1>1. IndInv => MfaColumnsAgree
    BY DEF IndInv
  <1> QED
    BY <1>1, Invariance, PTL

\* A password change or a change of MFA revokes every token issued before it,
\* as long as no two changes overlapped (auth_version is written as the value
\* a request loaded, plus one).
THEOREM TokensAreRevoked == Spec => []ChangeRevokesTokens
  <1>1. IndInv => ChangeRevokesTokens
    BY DEF IndInv, VersionsOK, ChangeRevokesTokens
  <1> QED
    BY <1>1, Invariance, PTL

\* No step removes the user or changes its role.
LEMMA CreatedStep ==
    IndInv /\ [Next]_vars =>
        [user # Absent => user' # Absent /\ user'.role = user.role]_vars
  <1> SUFFICES ASSUME IndInv, Next, user # Absent
               PROVE  user' # Absent /\ user'.role = user.role
    OBVIOUS
  <1>1. IndInv' /\ user \in User /\ epoch \in Nat
    BY NextInv DEF IndInv, TypeOK
  <1>2. ASSUME NEW s \in Sessions, NEW u, CommitChange(s, u), u.role = user.role
        PROVE  user' # Absent /\ user'.role = user.role
    <2>1. user' = u /\ epoch' = epoch + 1
      BY <1>2 DEF CommitChange
    <2> QED
      BY <1>1, <1>2, <2>1 DEF IndInv, VersionsOK
  <1>3. ASSUME NEW s \in Sessions, SessionStep(s)
        PROVE  user' # Absent /\ user'.role = user.role
    <2>1. CASE \E new \in Passwords : change_password(s, new)
      <3> PICK new \in Passwords : change_password(s, new)
        BY <2>1
      <3> DEFINE u == [user EXCEPT !.password = new,
                                   !.auth_version = row[s].auth_version + 1]
      <3>1. CommitChange(s, u) /\ u.role = user.role
        BY <1>1 DEF change_password, User
      <3> HIDE DEF u
      <3> QED
        BY <1>2, <3>1
    <2>2. CASE \E code \in Presentable : confirm_mfa_enrollment(s, code)
      <3> PICK code \in Presentable : confirm_mfa_enrollment(s, code)
        BY <2>2
      <3> DEFINE u == [user EXCEPT
              !.secret = row[s].pending, !.pending = 0, !.mfa_enabled = TRUE,
              !.last_used_step = code[3],
              !.codes = {<<"code", epoch + 1, n>> : n \in RecoveryCodes},
              !.auth_version = row[s].auth_version + 1]
      <3>1. CommitChange(s, u)
        BY DEF confirm_mfa_enrollment
      <3>2. u.role = user.role
        BY <1>1 DEF User
      <3> HIDE DEF u
      <3> QED
        BY <1>2, <3>1, <3>2
    <2>3. CASE \E code \in Presentable : disable_mfa(s, code)
      <3> PICK code \in Presentable : disable_mfa(s, code)
        BY <2>3
      <3> DEFINE u == [user EXCEPT
              !.mfa_enabled = FALSE, !.secret = 0, !.last_used_step = -1,
              !.pending = IF row[s].pending = 0 THEN @ ELSE 0,
              !.codes = IF row[s].codes = {} THEN @ ELSE {},
              !.auth_version = row[s].auth_version + 1]
      <3>1. CommitChange(s, u)
        BY DEF disable_mfa
      <3>2. u.role = user.role
        BY <1>1 DEF User
      <3> HIDE DEF u
      <3> QED
        BY <1>2, <3>1, <3>2
    <2>4. CASE start_mfa_enrollment(s)
      <3>1. minted' \in Nat /\ user' = [user EXCEPT !.pending = minted']
        BY <1>1, <2>4 DEF IndInv, TypeOK, start_mfa_enrollment
      <3>2. user' \in User
        BY <1>1, <3>1 DEF User
      <3> QED
        BY <1>1, <3>1, <3>2, AbsenceAssumption DEF User
    <2>5. CASE \E code \in Presentable : LoginWithCode(s, code)
      <3> PICK code \in Presentable : LoginWithCode(s, code)
        BY <2>5
      <3>1. pc'[s] = "issue"
        BY DEF LoginWithCode, Goto, IndInv, TypeOK
      <3>2. user' # Absent
        BY <1>1, <3>1 DEF IndInv, Loaded, Known, PCs, UserRole
      <3>3. PICK codes, last :
                user' = [user EXCEPT !.codes = codes, !.last_used_step = last]
        BY DEF LoginWithCode
      <3> QED
        BY <1>1, <3>2, <3>3 DEF User
    <2>6. CASE UNCHANGED user
      BY <2>6
    <2> QED
      BY <1>3, <2>1, <2>2, <2>3, <2>4, <2>5, <2>6
      DEF SessionStep, create_user, bootstrap_super_admin, FindExisting,
          InsertUser, LockUser, LoginWithPassword, IssueToken,
          get_current_user, record_reauthentication, EndRequest
  <1>4. CASE Tick
    BY <1>4 DEF Tick
  <1> QED
    BY <1>3, <1>4 DEF Next

\* Of the registrations and super admin bootstraps that found no user, one
\* inserts the row; no later step removes it or changes its role.
THEOREM CreatedOnce == Spec => UserIsCreatedOnce
  BY CreatedStep, Invariance, PTL DEF Spec, UserIsCreatedOnce
=============================================================================
