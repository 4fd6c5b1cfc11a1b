SPECIFICATION FairSpec
CONSTANTS
    Events = {e1, e2}
    Flushers = {f1, f2}
    OUTBOX_BATCH_SIZE = 1
    OUTBOX_MAX_RETRIES = 2
    MaxUpsets = 1
CHECK_DEADLOCK FALSE
INVARIANTS
    PublishedWasEnqueued
    FailedAfterRetries
PROPERTIES
    EventuallyDrained
    PublishedIsHandled
