SPECIFICATION LookupSpec
CONSTANTS
    Sizes = {5}
    MaxCount = 9
    Addresses = {1, 2, 3, 4, 5, 6, 7, 8, 9}
    Clouds <- SomeClouds
CHECK_DEADLOCK FALSE
INVARIANTS LookupTypeOK FindsExactly CachesRight IsExistRight WithinLimit NothingDropped
