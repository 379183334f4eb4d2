\* A private key longer than the buffer that an update reads it into.
CONSTANTS
    ProtocolCap = 3
    FieldCap = 5
    ValueCap = 4
    EscapeCap = 9
    ObjectCap <- MCObjectCap
    MaxRecords = 2
    Supported <- MCSupported
    Protocols <- MCSupported
    Texts <- MCTexts
SPECIFICATION Spec
INVARIANTS EditedAsGiven
