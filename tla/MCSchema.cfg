SPECIFICATION FairSpec
CONSTANTS
    u1 = u1
    u2 = u2
    Users = {u1, u2}
INVARIANTS
    VersionMatchesSchema
    HeadMatchesModels
    PasswordsSurvive
PROPERTY
    UpgradeCompletes
