CONSTANTS
    Users = {org, guest}
    Organizers = {org}
    NoUser = NoUser
    NoData = NoData
    MaxChanges = 1
    Sections = {"home", "settings", "linked"}
SPECIFICATION Spec
INVARIANTS TypeOK NoDraftsForVisitors NothingLeftAfterSignOut
PROPERTIES SignedOutOnlyWhenRefused SuccessMeansShown LoadingEnds SaveEnds
