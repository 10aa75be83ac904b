CONSTANTS
    Size = 25
    Fields <- MCFields
    MaxMessages = 3
SPECIFICATION Spec
CHECK_DEADLOCK FALSE
INVARIANTS TypeOK DecodedInOrder
PROPERTIES BytesStayInOrder DecodedEventually
