\* Descriptors up to 5 (three beyond the standard ones), four handles created,
\* files and streams of up to 3 bytes; trees of up to four paths.
SPECIFICATION FilesSpec
CHECK_DEADLOCK FALSE
CONSTANTS
    Program <- MCProgram
    Input <- MCInput
    Byte = {1, 2}
    Source = {0, 3, 4}
    Target = {3, 5}
    MaxFd = 5
    MaxHandles = 4
    MaxBytes = 3
    Trees <- MCTrees
    Archives <- MCArchives
    MaxPaths = 4
    NameSize <- MCNameSize
    NoSnapshot = NoSnapshot
INVARIANTS
    StreamsKeepBytes
    FileKeepsWrites
    ReportedIsReadable
    SnapshotRestores
    ArchiveMounts
PROPERTIES
    TablesStayApart
