SPECIFICATION FairSpec
CONSTANTS
    PipeCapacity = 1
    Tools = {"write_file", "delete_file", "create_directory", "copy_file", "move_path", "open_application", "run_command"}
    Spellings = {"bare", "token", "full", "invented", "placeholder"}
    Indexed = FALSE
    Nothing = Nothing
INVARIANTS CommandReported
PROPERTIES ApprovedRunsAsShown CommandReturns
