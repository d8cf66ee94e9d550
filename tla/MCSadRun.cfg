SPECIFICATION MCSpec
CONSTANTS
    LastEntry = 48
    FatEntries = 12
    LastCluster = 10
    EntryWords = 4
    HighWord = 16
    ClusterWords = 12
    ClusterBytes = 2
    Volumes <- MCVolumes
    SubEntries <- MCSubEntries
    Answers <- MCAnswers
    ByteClass <- MCByteClass
    Paths <- MCPaths
    NewNames = {"b"}
    BlockSizes = {1}
    Offsets <- MCOffsets
    HandleSize = 2
    Align = 2
    MemBytes = 12
    HeapLimit = 10
    MaxFiles = 2
    NumCores = 2
    TextBytes = 5
    DataBytes = 5
    BufferBase = 10
    BufferGap = 1
    Lines = 1
    Timely = {TRUE, FALSE}
INVARIANTS
    VolumeConsistent
    OpenFilesIntact
    PassOneSolo
PROPERTIES
    ImageStarted
    WorkersFinish
CHECK_DEADLOCK FALSE
