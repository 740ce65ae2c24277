\* Two files around a piece of data, two retries.
CONSTANTS
    Parts <- FileDataFile
    FileSize = 2
    MaxRetries = 2
SPECIFICATION FairSpec
INVARIANTS SentFromTheStart CleanStart Owned OneUpload
PROPERTIES ProgressIsCurrent FilesClosed
CHECK_DEADLOCK FALSE
