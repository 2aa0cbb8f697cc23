SPECIFICATION Spec
CONSTANTS
    WordBits = 16
    GroupBits = 7
    Names = {"temperature", "humidity", "timestamp"}
    Uploads <- UploadsOf
    Batches <- BatchesOf
    Strings <- StringsOf
    MantissaBits = 13
    ZeroTime <- EpochOf
INVARIANTS
    DecodeIsCompositional
    BatchesAreRead
    PanicNeedsHugeLength
    StoredUnderItsId
    OneNamePerId
    BatchIsServed
    TypeOK
