SPECIFICATION Spec
CONSTANTS
    Sessions = {s1, s2}
    Passwords = {p1, p2}
    RecoveryCodes = {1}
    Absent = Absent
    Free = Free
    MaxStep = 2
    MaxSecrets = 2
    MaxChanges = 3
SYMMETRY Symmetry
INVARIANTS
    TypeOK
    SingleUse
    MfaColumnsAgree
    ChangeRevokesTokens
PROPERTY
    UserIsCreatedOnce
