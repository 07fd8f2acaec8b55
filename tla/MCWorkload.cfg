SPECIFICATION Spec
CONSTANTS
    seed = 1152
    StartTimes = {0, 1700000000}
    FIVE_MINUTES_SECONDS = 300
    FIFTEEN_MINUTES_SECONDS = 900
    FARM_INTERVALS = 288
    TRANSPORT_TEMPERATURE_INTERVALS = 216
    TRANSPORT_GPS_INTERVALS = 72
INVARIANTS
    CredentialsCoverReadings
    ColdChainUnbroken
    SummaryIsTrue
\* The program ends when the scenario is saved.
CHECK_DEADLOCK FALSE
