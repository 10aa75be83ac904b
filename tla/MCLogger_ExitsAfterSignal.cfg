CONSTANTS
    Threads = {main, io}
    Main = main
    MaxFileSize = 0
    MaxLines <- MCMaxLines
    MaxDays = 2
SPECIFICATION Spec
PROPERTIES ExitsAfterSignal
CHECK_DEADLOCK FALSE
