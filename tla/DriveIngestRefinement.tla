------------------------ MODULE DriveIngestRefinement ------------------------
(* DriveIngest implements ScanLoop: forget contents, library and stores,   *)
(* and see every step inside a file as one "busy" state.                   *)
EXTENDS MCDriveIngest

LoopStep == IF pc \in InFile THEN "busy" ELSE pc

Scan == INSTANCE ScanLoop WITH
    Listing  <- [f \in Files |-> 0],
    Stuck    <- {},
    MayFail  <- TRUE,
    place    <- [f \in Files |-> drive[f].place],
    settled  <- {f \in Files : drive[f].stable},
    pc       <- LoopStep,
    cache    <- [n \in Names |-> IF scanFiles[n] = None THEN None
                                                        ELSE scanFiles[n].id]

\* Every step of the daemon, crashes and failures included, is a step of the
\* scan loop or leaves it alone: inside a file only the final move touches
\* the inbox, and only the loop touches the queue, the cache and the shutdown.
ImplementsScanLoop == Scan!SafetySpec
=============================================================================
