\* One call at a time, of every module without state between calls.
CONSTANTS
    ByteMod = 4
    SizeMax = 11
SPECIFICATION Spec
INVARIANTS
    PasswordMemoryIsReleased
    PaddingAndSamplingAreExact
    ArithmeticIsExact
    CurvesFollowTheLaw
    TextsAreCanonical
    MessagesAreSealed
CHECK_DEADLOCK FALSE
