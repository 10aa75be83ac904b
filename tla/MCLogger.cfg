CONSTANTS
    Threads = {main, io}
    Main = main
    MaxFileSize = 0
    MaxLines <- MCMaxLines
    MaxDays = 2
SPECIFICATION Spec
INVARIANTS TypeOK LinesReachFiles
PROPERTIES WrittenEventually
CHECK_DEADLOCK FALSE
