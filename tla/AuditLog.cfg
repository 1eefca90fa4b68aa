SPECIFICATION FairSpec
CONSTANTS
    q1 = q1
    q2 = q2
    q3 = q3
    Queries = {q1, q2, q3}
    Nobody = Nobody
    Garbage = Garbage
    MaxTime = 1
    MaxCrashes = 2
INVARIANTS TypeOK ReadableLogsVerify VerifyFailsOnlyMidWrite DisclosuresRecorded TimesOrdered CutsAreNoticed
PROPERTIES AnswersArrive
\* Every request is served once.
CHECK_DEADLOCK FALSE
