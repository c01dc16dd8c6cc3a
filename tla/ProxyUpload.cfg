SPECIFICATION FairSpec
CONSTANTS
    DataLengths <- ALongAndAnEmptyFile
    Headers <- FourHeaders
    Buffer = 2
    Word = 7
    UploadTries = 2
    MaxGarbled = 1
    Faults <- AnyFault
INVARIANTS
    TypeOK BodyInOrder EndsWhole UploadedIsStored HandlesAreClosed
PROPERTIES
    GetsThrough
CHECK_DEADLOCK FALSE
