SPECIFICATION Spec
CONSTANTS
    Clients = {"page", "curl"}
    Sessions = {"page"}
    Organizations <- MCOrganizations
    Emails <- MCEmails
    Accounts <- MCAccounts
    Tokens <- MCTokens
    ApiToken = "change-me"
    Typed <- MCTyped
    Keys <- MCKeys
    Runs = {1, 2}
    Earlier <- MCEarlier
    Calls = {1, 2}
    MaxClicks <- MCMaxClicks
    Requests <- MCRequests
INVARIANTS TypeOK TenantsApart PatientReviewerNeverRaces
PROPERTIES CopyNeverGoesBack DecidesWhatIsDrawn
CHECK_DEADLOCK FALSE
