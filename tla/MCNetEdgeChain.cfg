SPECIFICATION Spec
CONSTANTS
    Units = {"USD", "BPS", "RATE", "10bp"}
    Proportional = {"BPS", "RATE"}
    Recognized = {"USD", "BPS", "RATE"}
    MaxTime = 2
    Thresholds = {0, 1}
    Values = {0, 1, 2}
    Labels = {"m", "m "}
    Padded = {"m ", "USD "}
    MaxSize = 2
    SizeUnits = {"USD", "USD "}
    MaxCosts = 2
INVARIANTS StagesAreSound RefusalIsEconomic LaterStagesAgree
CHECK_DEADLOCK FALSE
