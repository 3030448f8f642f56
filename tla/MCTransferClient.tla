------------------------- MODULE MCTransferClient -------------------------
EXTENDS TransferClient, TLC

\* Every file is one chunk, or is empty; two versions of an analysis differ in size.
MCChunks == [f \in File |-> 1]
MCEmpty == [f \in File |-> 0]
MCCsvSize == <<2, 1>>
MCCsvSize1 == <<2>>

\* The files are alike: equally long, and no definition names one.
Files == Permutations(File)
=============================================================================
