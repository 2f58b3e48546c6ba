\* Two directories, two pairings; the user stops after MaxEvents requests.
SPECIFICATION FairSpec
CONSTANTS
    Dirs = {a, b}
    Home = a
    MaxIssued = 2
    MaxEvents = 3
    None = None
INVARIANTS TypeOK SavesWhatWasRead RefusedIsDropped FlagsHonest
PROPERTIES ValidCredentialKept Settles
CHECK_DEADLOCK FALSE
