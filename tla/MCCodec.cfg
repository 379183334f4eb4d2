\* Arrays of 3, 5, 4 and 9 stand for 32, 1024, 256 and 2100.
CONSTANTS
    ProtocolCap = 3
    FieldCap = 5
    ValueCap = 4
    EscapeCap = 9
    ObjectCap <- MCObjectCap
    MaxRecords = 2
    Supported <- MCSupported
    Protocols <- MCProtocols
    Texts <- MCTexts
SPECIFICATION Spec
INVARIANTS TypeOK PlainTextKept NothingLost DamageSettles
