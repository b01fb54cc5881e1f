CONSTANTS
    Keys = {ann, bob}
    Columns = {email}
    Values = {v1, v2}
    Clients = {c1, c2}
    Configured = {ann, bob}
    MaxUuids = 4
    MaxRestarts = 1
    Keep = Keep
    None = None
SYMMETRY Symmetry
SPECIFICATION RegistrySpec
INVARIANTS
    RegistryTypeOK
    ReferredToExist
PROPERTIES
    SeededFromScratch
    Identity
