SPECIFICATION Spec
CONSTANTS
    hand = hand
    r1 = r1
    r2 = r2
    f1 = f1
    f2 = f2
    NoFile = NoFile
    Nobody = Nobody
    Runner <- MCRunner
    Folder <- MCFolder
    Process <- MCProcess
    FolderOf <- MCFolderOf
    Asked <- MCAsked
    Commands <- MCCommands
    Forcing = {r2}
    Workers = 1
    MaxStarts = 2
    MaxFaults = 1
    MaxKills = 1
CHECK_DEADLOCK FALSE
INVARIANTS
    ReportsAsPromised
