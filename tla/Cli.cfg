SPECIFICATION MCSpec
CONSTANTS
    CliParts = {"codegen", "new", "tools"}
    Shells = {"s1", "s2"}
    Args <- MCArgs
    FileName <- MCFileName
    Mentions <- MCMentions
    ModuleFiles <- MCModuleFiles
    Installs <- MCInstalls
    Mains <- MCMains
    MaxCommands = 3
    MaxFaults = 2
    Creators = {"c1", "c2"}
    Answers <- MCAnswers
    MaxBreaks = 1
    Tools <- MCTools
    MaxEdits = 2
    MaxKills = 1
    MaxRuns = 3
INVARIANTS
    WiredIsWritten
    NeverTwice
    SuccessIsComplete
    ReadyIsComplete
    ScratchFilesDoNotMislead
CHECK_DEADLOCK FALSE
