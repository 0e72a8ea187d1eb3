CONSTANT Thread = {t1, t2, t3, t4}
SPECIFICATION FairSpec
INVARIANT Exclusion
PROPERTY WriterProceeds
