SPECIFICATION Spec
CONSTANTS
    Users = {1, 2}
    None = None
    Week = 0
    Month = 0
    Top = 1
    MaxLimit = 2
    DefaultLimit = 1
    Limits = {2, 3}
    Rows <- MCRows
    MaxTeams = 2
    MaxTasks = 3
    MaxRead = 2
INVARIANTS TypeOK StatsAgree RanksFair
PROPERTIES PagesMissFew
