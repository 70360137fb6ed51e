SPECIFICATION Spec
CONSTANTS
    Catalog <- TwoTexts
    FilesOf <- Files
    Blocks = 2
    MaxAttempts = 2
    MaxSessions = 2
    MaxTrouble = 1
INVARIANTS TypeOK 
PROPERTIES InstalledStays 
CHECK_DEADLOCK FALSE
