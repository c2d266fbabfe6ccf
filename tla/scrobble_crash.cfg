SPECIFICATION Spec
CONSTANTS
    Listen <- MCListen
    Source <- MCSource
    Service <- MCService
    MaxCrashes <- MCMaxCrashes
    MaxLostAnswers <- MCMaxLostAnswers
PROPERTY PersistedBeforeReturn
