\* Two more uploads of three batches on top of the first, three mishaps, any state of the migration; fair.
CONSTANTS
    Uploads = {u0, u1, u2}
    First = u0
    Batches = 3
    Mishaps = 3
SPECIFICATION FairLedgerSpec
INVARIANTS WholeLedger FullCount
PROPERTIES SuccessIsLive RetrySucceeds
CHECK_DEADLOCK FALSE
