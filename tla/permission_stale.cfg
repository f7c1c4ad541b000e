CONSTANTS
    Dir <- MCDir
    Home = "/h"
    Up <- MCUp
    GitDir = {"/h/git"}
    ClaudeDir = {"/h", "/h/git/sub"}
    Token <- MCToken
    Call <- MCCall
    Entries <- MCEntries
    LRU_CAPACITY = 1
    MaxEdits = 1
    MaxAlways = 1
    MaxEvictions = 1
SPECIFICATION Spec
INVARIANTS AlwaysReachesFutureCalls
