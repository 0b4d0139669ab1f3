SPECIFICATION Spec
CONSTANTS
    None = None
    Statuses <- MCStatuses
    Names <- MCNames
    Words <- MCWords
    Urls <- MCUrls
    FeedUrls <- MCFeedUrls
    Final <- MCFinal
    Doc <- MCDoc
    TagLists <- MCTagLists
    Filters <- MCFilters
    Outlines <- MCOutlines
    Libraries <- MCLibraries
    Flights = 1
    Ops = 2
    Kills = 1
    DefaultPerPage = 2
    MaxPerPage = 2
    SidebarTagLimit = 1
INVARIANTS SearchCurrent ListingsAgree OutboxCurrent
PROPERTIES RefreshIngests
CHECK_DEADLOCK FALSE
