SPECIFICATION FairSpec
CONSTANTS
    SeqMod = 4
    Sizes = {hd, fhd}
    NoSize = none
    RequestGap = 1
    RetryGap = 4
INVARIANTS
    SkippingIsAsked
PROPERTIES
    OnlyDecodableFrames
    RequestsSpaced
    GateReopens
