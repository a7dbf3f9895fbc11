SPECIFICATION Spec
CONSTANTS
    PageSize = 2
    AccountMap <- MCAccountMap
    Mails <- MCMails
    MaxMails = 2
    Shapes <- MCShapes
    Days = {1, 2}
    MaxGroups = 3
    MaxChanges = 2
INVARIANTS TypeOK VerdictTrue DriftBounded
CHECK_DEADLOCK FALSE
