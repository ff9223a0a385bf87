SPECIFICATION SendSpec
CONSTANTS
    m1 = m1
    None = None
    Media <- OneMessage
    MaxUploads = 2
    MaxErrors = 1
    MaxRestarts = 1
    MaxDispatches = 2
    MaxVideoRestarts = 2
    MaxBridgeRestarts = 1
PROPERTIES
    UploadConfirmed
    RequestServed
CHECK_DEADLOCK FALSE
