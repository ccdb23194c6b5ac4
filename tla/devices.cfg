CONSTANTS
    anchor = anchor
    other = other
    call1 = call1
    call2 = call2
    None = None
    DeviceIds <- TwoDevices
    Allowed <- OneAllowed
    Calls <- TwoCalls
SPECIFICATION Spec
INVARIANTS OneRow ListIsComplete DisabledIsRefused
PROPERTIES KeepsEdits
SYMMETRY CallSymmetry
