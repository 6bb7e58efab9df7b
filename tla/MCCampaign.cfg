\* A guided campaign with confirmations, and one that is killed and started again.
SPECIFICATION FairSpec
CONSTANT Settings <- MCSettings
INVARIANTS TrialsAccounted ConfirmedOnce ReportMatchesDisk 
PROPERTIES WholeEvidenceKept CampaignEnds
\* A campaign stops when it is done.
CHECK_DEADLOCK FALSE
