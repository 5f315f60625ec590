SPECIFICATION Spec
CONSTANTS
    MaxBytes = 9
    DNS_MAXLABEL = 5
    Buflen = 32
    Headers <- MCHeaders
INVARIANTS
    RoundTrip
    LengthsAgree
    DotsRight
CHECK_DEADLOCK FALSE
