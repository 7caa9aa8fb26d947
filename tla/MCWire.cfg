CONSTANTS
    Messages <- MCMessages
    Damages <- MCDamages
SPECIFICATION Spec
INVARIANTS
    RoundTrip
    DamageIsDetected
    CrcIsStandard

CHECK_DEADLOCK FALSE
