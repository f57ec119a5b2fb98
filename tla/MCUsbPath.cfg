SPECIFICATION Spec
CONSTANTS
    Templates <- MCTemplates
    Descriptors <- MCDescriptors
    Edits = 2
    Inputs <- MCInputs
    PacketHeads <- MCPacketHeads
    RecordHeads <- MCRecordHeads
    MaxTransfers <- MCMaxTransfers
INVARIANTS WholeFunction SoundChosen FramesApart SoundServed ShortPacketEnds
CHECK_DEADLOCK FALSE
