SPECIFICATION Spec
CONSTANTS
    Buckets = {1, 2}
    Keys = {1, 2, 4}
    Folders = {3}
    FolderOf <- FolderOfKeys
    Placeholders = {2}
    SeedLike = {1}
    Contents = {1, 2, 3}
    Size <- Sizes
    PageSize = 2
    MaxObject = 1
    Situations <- ToExportOrLoad
    Requests <- Asked
    MaxRuns = 2
    MaxChanges = 1
INVARIANTS
    ListingIsComplete
    UploadsAreGenuine
    LoadDelivers
    SizesAreForeseen
