------------------------------ MODULE MCServices ------------------------------
(***************************************************************************)
(* The services that run beside the projection queue and share no state    *)
(* with one another.  A behaviour is one of a service while the others     *)
(* rest, so what is checked of it is what its own specification has; the   *)
(* states are the sum of the services' and not their product.              *)
(***************************************************************************)
EXTENDS ProjectionControl, WalManager, CanarySupervisor, SleepCycle,
        LabelUpgrade

CONSTANTS
    memory, label_type,   \* projection types
    bright, plain, slow   \* observations

MCParents == [t \in Types |-> {}]
MCDebts == {Types}

\* The model agrees with the write path on none of them.
MCWorth == [e \in Entries |-> IF e = plain THEN "middling" ELSE "high"]
MCCheap == [e \in Entries |-> CASE e = bright -> "junk"
                                [] e = plain -> "high"
                                [] e = slow -> "middling"]

VARIABLE part

servicesVars == <<part, controlAllVars, walVars, canaryVars, sleepVars,
                  upgradeVars>>

ServicesTypeOK ==
    /\ ControlTypeOK
    /\ WalTypeOK
    /\ CanaryTypeOK
    /\ SleepTypeOK
    /\ UpgradeTypeOK

ServicesInit ==
    /\ part \in {"control", "wal", "canary", "sleep", "upgrade"}
    /\ ControlInit
    /\ WalInit
    /\ CanaryInit
    /\ SleepInit
    /\ UpgradeInit

\* Of the services that rest nothing changes.
Rest(busy) ==
    /\ IF busy = "control" THEN TRUE ELSE UNCHANGED controlAllVars
    /\ IF busy = "wal" THEN TRUE ELSE UNCHANGED walVars
    /\ IF busy = "canary" THEN TRUE ELSE UNCHANGED canaryVars
    /\ IF busy = "sleep" THEN TRUE ELSE UNCHANGED sleepVars
    /\ IF busy = "upgrade" THEN TRUE ELSE UNCHANGED upgradeVars

\* Bound: the model fails or a write does, each in behaviours of its own.
\* WorthSurvives and WorthIsKept suppose that no write fails, and AskedOnce
\* counts what no outage disturbs.
OneKindOfTrouble == outages' = 0 \/ setbacks' = 0

ServicesNext ==
    /\ UNCHANGED part
    /\ \/ part = "control" /\ ControlNext /\ Rest("control")
       \/ part = "wal" /\ WalNext /\ Rest("wal")
       \/ part = "canary" /\ CanaryNext /\ Rest("canary")
       \/ part = "sleep" /\ SleepNext /\ OneKindOfTrouble /\ Rest("sleep")
       \/ part = "upgrade" /\ UpgradeNext /\ Rest("upgrade")

\* The fairness of each service, in its own behaviours.
ServicesFairness ==
    /\ \A w \in Workers :
          WF_controlAllVars(part = "control"
                            /\ (PolledClaim(w) \/ EmptyClaim(w) \/ BatchStep(w)))
    /\ \A j \in Jobs :
          WF_controlAllVars(part = "control" /\ TimePasses(j) /\ UNCHANGED controlVars)
    /\ WF_controlAllVars(part = "control" /\ append.event # NoEvent /\ AppendStep)
    /\ WF_walVars(part = "wal" /\ MaybeCheckpoint)
    /\ WF_walVars(part = "wal" /\ CoolsDown)
    /\ \A r \in Readers :
          /\ WF_walVars(part = "wal" /\ r \in registry /\ OpenSnapshot(r))
          /\ WF_walVars(part = "wal" /\ CloseSnapshot(r))
    /\ WF_canaryVars(part = "canary" /\ Supervise)
    /\ WF_canaryVars(part = "canary" /\ Project)
    /\ WF_canaryVars(part = "canary" /\ ProducerLeaves)
    /\ SF_canaryVars(part = "canary" /\ LoopEnds)
    /\ WF_sleepVars(part = "sleep" /\ SleepStep)
    /\ SF_sleepVars(part = "sleep" /\ FallAsleep)
    /\ \A u \in Upgraders :
          /\ WF_upgradeVars(part = "upgrade" /\ AskModel(u))
          /\ SF_upgradeVars(part = "upgrade" /\ Answer(u))

ServicesSpec ==
    ServicesInit /\ [][ServicesNext]_servicesVars /\ ServicesFairness
=============================================================================
