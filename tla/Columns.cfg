SPECIFICATION MFairSpec
CONSTANTS
    None = None
    p1 = p1
    a1 = a1
    a2 = a2
    Process <- OneProcess
    Publication <- Records
    ProcessOf <- Threads
    TTL = 1
    MaxClock = 3
    MaxMigrations = 3
    MaxFaults = 1
    Languages <- InEnglishAndChinese
    LanguageCode <- Chinese
    UseI18N = TRUE
    Msgid <- Texts
    Catalog <- Translations
    Unsafe <- Nan
    Message <- Messages
    InvalidMessage <- Invalid
    Says <- Heards
    Viewer <- Viewers
INVARIANTS
    TypeOK
    LegacyIsRecent
    MTypeOK
    OutcomeIsShown
    InReadersLanguage
    MainShowsTheSame
PROPERTIES
    RefusedOnce
    EventuallyWritten
    ImplementsColumns
CHECK_DEADLOCK FALSE
