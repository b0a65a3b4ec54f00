\* Root with room for three entries; four nodes; five 2-byte blocks (the
\* root's, one per initial file, two to share out), so writes cross block
\* boundaries and run out of blocks part way; one fd (fd 3).
CONSTANTS
    hello = hello
    readme = readme
    a = a
    Names <- MCNames
    FS_MAX_FILES = 4
    FS_MAX_BLOCKS = 5
    FS_BLOCK_SIZE = 2
    MaxEntries = 3
    MAX_FDS = 4
    InitFiles <- MCInitFiles
    WriteData <- MCWriteData
    ReadCounts = {1, 3}
    MaxInode = 6
SPECIFICATION Spec
INVARIANT TypeOK
INVARIANT ChainsExclusive
PROPERTY FilesImplementStore
