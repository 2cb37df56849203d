\* A put and a delete on two members, collections, a download and one fault; an upload takes
\* as long as the grace period and the clocks of the members allow.
CONSTANTS
    Node = {1, 2}
    Chunk = {c1}
    Object = {o1}
    Puts = {p1}
    Deletes = {d1}
    Reader = {r1}
    Contents <- MCContents
    Collector = {1}
    chunkReplicas <- MCchunkReplicas
    metaReplicas <- MCmetaReplicas
    writeQuorum = 1
    readQuorum = 2
    gracePeriod = 2
    UploadLimit = 1
    Skew <- MCSkew
    Old <- MCOld
    Ahead = 1
    Nil = Nil
    MaxTime = 2
    MaxWrites = 2
    MaxFaults = 1
SPECIFICATION Spec
INVARIANT TypeOK CommittedReadable UploadKept CutReadsExplained
