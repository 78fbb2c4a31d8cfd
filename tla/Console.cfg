\* One message of each kind; a fault's message is longer than the guest's.
SPECIFICATION FairSpec
CONSTANTS
    MsgLen <- MCMsgLen
    NrBytes = 3
    RxFifo = 2
    Trigger = 2
INVARIANTS EarlyLogWhole MixedOnlyByHandlers TransmitterHasRoom
PROPERTIES BytesAreRead
