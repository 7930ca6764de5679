SPECIFICATION Spec
CHECK_DEADLOCK FALSE
CONSTANTS
    Absent = Absent
    NaN = NaN
    NoFormat = NoFormat
    f1 = f1
    f2 = f2
    f3 = f3
    DefaultFormat = f1
    DefaultFormatHistory <- TheHistory
    MaxFormatHistory = 2
    DefaultSignalLossSeconds = 2
    MaxSignalLossSeconds = 3
    Formats <- TheFormats
    Pages <- ThePages
    Registries <- TheRegistries
    CurrentUser = "elsewhere"
    LocalMachine = "here"
    MaxRelease = 3
    MaxDay = 2
    MaxAsks = 2
    MaxRedirects = 1
    Budgets <- TheBudgets
INVARIANTS
    TypeOK
    NoticeIsNews
    FormatsRemembered
