------------------------------ MODULE MCRecords ------------------------------
(***************************************************************************)
(* Labels, claims, store generations, erasures and context packets, which  *)
(* share no state here: a behaviour is one of them while the others rest,  *)
(* as in MCServices.                                                       *)
(***************************************************************************)
EXTENDS MCReconciliationWorker, ClaimTimeline, StoreGeneration, Erasure,
        MCContextCache

VARIABLE part

recordsVars == <<part, vars, claimVars, generationVars, erasureVars,
                 cacheVars>>

RecordsTypeOK ==
    /\ part = "labels" => TypeOK
    /\ part = "claims" => ClaimTypeOK
    /\ part = "generation" => GenerationTypeOK
    /\ part = "erasure" => ErasureTypeOK
    /\ part = "context" => ContextTypeOK

RecordsInit ==
    /\ part \in {"labels", "claims", "generation", "erasure", "context"}
    /\ Init
    /\ ClaimInit
    /\ part # "claims" => kind = CHOOSE k \in Kinds : TRUE
    /\ GenerationInit
    /\ part # "generation" => ~locks /\ candidate = CHOOSE c \in Candidates : TRUE
    /\ ErasureInit
    /\ ContextInit

\* Of the parts that rest nothing changes.
AtRest(busy) ==
    /\ IF busy = "labels" THEN TRUE ELSE UNCHANGED vars
    /\ IF busy = "claims" THEN TRUE ELSE UNCHANGED claimVars
    /\ IF busy = "generation" THEN TRUE ELSE UNCHANGED generationVars
    /\ IF busy = "erasure" THEN TRUE ELSE UNCHANGED erasureVars
    /\ IF busy = "context" THEN TRUE ELSE UNCHANGED cacheVars

RecordsNext ==
    /\ UNCHANGED part
    /\ \/ part = "labels" /\ Next /\ AtRest("labels")
       \/ part = "claims" /\ ClaimNext /\ AtRest("claims")
       \/ part = "generation" /\ GenerationNext /\ AtRest("generation")
       \/ part = "erasure" /\ ErasureNext /\ AtRest("erasure")
       \/ part = "context" /\ ContextNext /\ AtRest("context")

RecordsSpec == RecordsInit /\ [][RecordsNext]_recordsVars
=============================================================================
