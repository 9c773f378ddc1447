SPECIFICATION Spec
CONSTANTS
    Words <- MCWords
    NoWord = "none"
    MaxNodes = 14
    Program <- MCProgram
    Scripts <- MCScripts
    Store <- MCStore
INVARIANTS
    TypeOK
    ReadsWhatIsWritten
    MeansWhatItSays
    EveryChildWaitedFor
    FirstOutputNeverRaces
    TravelAsSerial
PROPERTIES
    EndsUnlessCircular
