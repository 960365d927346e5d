SPECIFICATION WatcherSpec
CONSTANTS
    Scanners = {"s1"}
    Uploads = {"u1"}
    MaxChanges = 3
    QueueSize = 1
    Assumed = {"published", "spaced", "rescan", "alone"}
INVARIANTS UploadSeesItsModels
 
CHECK_DEADLOCK FALSE
