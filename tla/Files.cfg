SPECIFICATION VfsSpec
CONSTANTS
    Callers = {c1, c2}
    Dirs = {root, rom, ram, dev, d1, d2}
    Root = root
    RomDir = rom
    RamDir = ram
    DevDir = dev
    RamFiles = {r1}
    RomFiles = {page}
    Devices = {eeprom}
    Flash = flash
    FileNames = {x}
    DirNames = {a, b}
    NULL = NULL
    MAX_OPEN = 6
    RAMFS_BUFFER_SIZE = 1
    RomLength = 1
    Sizes = {1, 2}
    MaxIndex = 3
    Work = {{"dirs"}, {"io"}}
    Rash = {}
SYMMETRY Symmetry
CHECK_DEADLOCK FALSE
INVARIANTS DescriptorsSound HeldWhileOpen FindRight ListedAll
PROPERTY WritesInside
