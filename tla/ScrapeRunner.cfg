SPECIFICATION Spec
CONSTANTS
    Processes = {service, assisted}
    LoginProcess = assisted
    service = service
    assisted = assisted
    MaxRuns = 2
INVARIANTS
    OneChrome
    OnlyLateOnesSurvive
    OtpIsNotMissed
PROPERTIES
    LoginConfirmsWhenDone
    EverythingGoes
\* There are only so many runs.
CHECK_DEADLOCK FALSE
