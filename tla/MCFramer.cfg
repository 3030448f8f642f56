CONSTANTS
    Base = 8
    kMagic <- MCMagic
    kProtocolVersion = 1
    kMaxFilenameLen = 2
    kMaxFileSize = 7
    kMaxCsvSize = 2
    Forbidden = {0, 7}
    Streams <- MCStreams
    CR = 1
    LF = 4
    MaxLen = 2
SPECIFICATION Spec
INVARIANTS TypeOK LinesOfTheStream CutsDoNotMatter NothingInvented LegalArrives
