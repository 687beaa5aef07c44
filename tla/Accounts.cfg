CONSTANTS
    Calls = {k1, k2}
    NoToken = NoToken
    MaxNow = 3
    MaxTokens = 3
    AccessLife = 2
    RefreshLife = 3
    MasterLife = 4
    Visitors = {v1, v2}
    NoCode = NoCode
    MaxMails = 2
    MaxAttempts = 3
    MaxUsers = 2
    Users = {u1, u2}
    Tabs = {t1, t2}
    MaxInvites = 2
    NoInvite = NoInvite
SPECIFICATION AccountsSpec
SYMMETRY AccountSymmetry
INVARIANTS AccountsTypeOK LatestTokenWorks LoggedOutIsRefused CodeIsCurrent OneUserVerified OneRow
PROPERTIES LoggedOutStaysOut JoinsAsInvited
CHECK_DEADLOCK FALSE
