\* Two processes on one file: two chains, a mutable collection, two legacy collections.
SPECIFICATION Spec
CONSTANTS
    Processes = {a, b}
    NoProcess = NoProcess
    Linked = {1, 2}
    Mutable = {3}
    Keys = {1, 2}
    Payloads = {1, 2, 3}
    RecordId <- MCRecordId
    Legacy <- MCLegacy
    Calls <- MCCalls
    MaxCalls = 2
    MaxVersion = 3
SYMMETRY ProcessSymmetry
PROPERTIES
    AlarmsNeedAWriter
    LegacyMovedWhole
    NoLostUpdate
    ImplementsLedgerCommit
