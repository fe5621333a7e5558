SPECIFICATION FairSpec
CONSTANTS
  Transfers <- MCTransfers
  NoTransfer = NoTransfer
  Ratios <- MCRatios
  Margins <- AllMargins
  Errors = {TRUE, FALSE}
  MaxWait = 1
INVARIANTS TransferIsOneAccess AccessHasMaster
PROPERTIES ErrorTakesTwoCycles Answers
