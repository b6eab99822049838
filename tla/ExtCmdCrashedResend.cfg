SPECIFICATION Spec
CONSTANTS
    Scenarios <- CrashedResend
    Margin = 3
    ManualAfter = 3
    SendLease = 2
    Transit = 1
    MaxAge = 6
PROPERTIES
    ResendOnlyWhenGone
