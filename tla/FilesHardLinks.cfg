\* The same instance: archives with hard links.
SPECIFICATION FilesSpec
CHECK_DEADLOCK FALSE
CONSTANTS
    Program <- MCProgram
    Input <- MCInput
    Byte = {1, 2}
    Source = {0, 3, 4}
    Target = {3, 5}
    MaxFd = 5
    MaxHandles = 4
    MaxBytes = 3
    Trees <- MCTrees
    Archives <- MCArchives
    MaxPaths = 4
    NameSize <- MCNameSize
    NoSnapshot = NoSnapshot
INVARIANT HardLinksMount
