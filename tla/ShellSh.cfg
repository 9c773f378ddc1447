SPECIFICATION Spec
CONSTANTS
    Words <- MCWords
    NoWord = "none"
    MaxNodes = 14
    Program <- MCProgram
    Scripts <- ShScripts
    Store <- MCStore
INVARIANTS
    BehavesAsSh
