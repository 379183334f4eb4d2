\* A protocol with a quote, that an update stores and a save does not escape.
CONSTANTS
    ProtocolCap = 3
    FieldCap = 5
    ValueCap = 4
    EscapeCap = 9
    ObjectCap <- MCObjectCap
    MaxRecords = 2
    Supported <- MCSupported
    Protocols <- MCProtocols
    Texts <- MCTexts
SPECIFICATION Spec
PROPERTIES ConnectionsSurvive
