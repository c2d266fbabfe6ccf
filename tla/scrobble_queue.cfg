SPECIFICATION Spec
CONSTANTS
    Listen <- MCListen
    Source <- MCSource
    Service <- MCService
    MaxCrashes <- MCMaxCrashes
    MaxLostAnswers <- MCMaxLostAnswers
INVARIANTS
    NoOtherLoss
    NoDoubleScrobble
    LogOutStopsSending
PROPERTY EventuallySubmitted
