\* The private key of several lines that a restart changes.
CONSTANTS
    ProtocolCap = 3
    FieldCap = 5
    ValueCap = 4
    EscapeCap = 9
    ObjectCap <- MCObjectCap
    MaxRecords = 2
    Supported <- MCSupported
    Protocols <- MCSupported
    Texts <- MCTexts
SPECIFICATION Spec
PROPERTIES ParametersSurvive
