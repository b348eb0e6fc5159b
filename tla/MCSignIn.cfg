SPECIFICATION SignInSpec
CONSTANTS
    a1 = a1
    a2 = a2
    e1 = e1
    e2 = e2
    None = None
    Null = Null
    Blank = Blank
    Accounts <- MCAccounts
    Emails <- MCEmails
    MaxToken = 2
    LegacyRecords <- MCLegacyRecords
    Platforms = {"linux", "macos"}
    Identities <- MCIdentities
    OldRecords <- MCOldRecords
    Kinds = {"can_use_tool", "mcp_message"}
    MaxOut = 2
    MaxRepeats = 1
    MaxCallbacks = 1
INVARIANTS
    SignInTypeOK
    ActiveMatchesBinding
    RestartKeepsCredential
    RecordOfOneAccount
    SyncKeepsNewest
    SavedAfterPolicy
    CallbacksAnswered
PROPERTIES
    BindingPermanent
    OneAccountForLife
