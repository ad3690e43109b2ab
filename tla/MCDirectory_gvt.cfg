SPECIFICATION Spec
CONSTANTS
    MaxTime = 3
    MaxSeq = 4
    Entities = {1, 2}
    Owners = {1, 2, 3}
    DefaultOwner <- MCDefaultOwner
    Inputs <- GvtInputs
    Revocable = {}
    GvtStamps <- GvtReached
PROPERTY
    NoSendBelowGvt
CHECK_DEADLOCK FALSE
