CONSTANTS
    version_txt = version_txt
    test_txt = test_txt
    dev = dev
    garbage = garbage
    long1 = long1
    long2 = long2
    short = short
    sub = sub
    Paths = {version_txt, test_txt, dev, long1, long2}
    Depth <- MCDepth
    Stored <- MCStored
    Contents <- MCContents
    INITRD_MAX_FILES = 4
    ADDR = 9
    LIST_BUFFER = 2
    BOOT_BUFFER = 4
    WORD = 64
SPECIFICATION Spec
CHECK_DEADLOCK FALSE
INVARIANTS
    ReadsBack
    FindsByName
    ListShowsFiles
