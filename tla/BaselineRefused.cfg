SPECIFICATION Spec
CONSTANTS
    None = None
    Statuses <- MCStatuses
    Names <- MCNames
    Words <- MCWords
    Urls <- MCUrls
    Keys <- MCKeys
    Filters <- MCFilters
    Actions <- MCActions
    FeedDoc <- MCFeedDoc
    Outlines <- MCOutlines
    Bookmarks <- MCBookmarks
    Clips <- MCClips
    Captures <- MCCaptures
    Archive <- MCArchive
    Libraries <- ShellLibraries
    Budget <- MCBudget
    Histories <- MCHistories
    Kills = 1
INVARIANTS BaselineApplies
CHECK_DEADLOCK FALSE
