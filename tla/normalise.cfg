CONSTANTS
    Payloads <- AllPayloads
    MaxUnwraps = 6
SPECIFICATION NormalizerSpec
INVARIANTS InnerVendorWins EnvelopeIsTransparent
CHECK_DEADLOCK FALSE
