CONSTANTS
    None = None
    Arms <- MCArms
    Seeds <- MCSeeds
    Confirm <- MCConfirm
    Order <- MCOrder
    Readings <- MCReadings
    Inputs = {"v0", "v1"}
    Accuracies = {70, 72}
    MaxEdits = 1
    MaxChanges = 1
SPECIFICATION CampaignSpec
CONSTRAINT Short
 
PROPERTY ReportsAgree
CHECK_DEADLOCK FALSE
