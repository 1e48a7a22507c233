\* Engine group with one replica: autocommit reads go to engineGroup.Slave().
CONSTANTS
    Sessions <- MCSessions
    Slaves <- MCOneSlave
    Conds <- MCConds
    UseGroup = TRUE
    MaxVer = 2
    MaxErrors = 1
SPECIFICATION Spec
INVARIANTS TypeOK StatementNotLeaked TxReadYourWrites NoDirtyReads
