CONSTANTS
    N = 3
    Named <- AnyName
    DrillFiles <- Drills
    Rto = 3
    Rpo = 1
    DrillContract <- Lab
    DrillApprovers <- OneApprover
    NoDrill = NoDrill
    Estates <- Portfolios
    Evidence <- Cutovers
    MaxRehearsals = 5
    Missing = Missing
    Limits <- CutoverLimits
    WaveApprovers <- OneApprover
    NoWave = NoWave
    Latencies <- ProbeLatencies
    Target <- ProbeTarget
    MaxProbes = 30
    Workloads <- TwoOrders
    Images <- TwoImages
    Measured <- Benchmarks
    Goal <- FleetTargets
    Crew = {c1, c2}
    Nothing = Nothing
    Events <- Usage
    Offers <- OfferLists
    Contract <- Regulated
    Sponsors <- OneApprover
    Invoices <- InvoicedAmounts
    Tolerance = 1
    NoReview = NoReview
    MaxDeliveries = 3
    Changes <- SomeChanges
    RingMeasures <- RingMeasurements
    Health <- HealthLimits
    ChangeApprovers <- OneApprover
    NoRing = NoRing
    NoVerdict = NoVerdict
    MaxObservations = 4
    Nodes <- LineageNodes
    Products <- TwoProducts
    Contracts <- ProductContracts
    Observed <- Observations
    Lineages <- AllLineages
    Stewards <- OneApprover
    NoField = NoField
    Services <- TwoServices
    Drivers <- AllDrivers
    Weights <- DriverWeights
    CostRecords <- BillRecords
    Denominator = 42
    MaxRecords = 3
    Ends <- EndNames
    End <- RequestEnds
    BaselineEnds <- PlainEnds
    Fixed = 10
    Score <- ServiceTargets
    MaxScenarios = 24
    Inventories <- Snapshots
    Definitions <- DefinitionLists
    Customer = "acme"
    Logins <- TwoLogins
    Actors <- OneActor
    MaxReports = 2
    MaxEvents = 5
    Outcomes <- OutcomeEvents
    RateCards <- PricedModels
    Platform = 5
    Routes <- RouteLists
    Reviewers <- OneApprover
    NoLedger = NoLedger
    MaxOutcomes = 4
    TicksPerSecond = 2
    RtoSeconds = 2
    RpoSeconds = 1
    Never = Never
    MaxTicks = 8
    MaxDrills = 2
    Tools <- TwoTools
    MaxSteps = 4
    MaxRepetitions = 1
    Floor <- ReleaseFloor
    BaselineValue = 34
    Worth <- WorkflowWorth
    Fit = TRUE
    NoAgent = NoAgent
    MaxServed = 3
    MaxCalls = 5
    Signals <- SomeSignals
    Diagnostics <- SomeDiagnostics
    Authority <- Responses
    Deciders <- OneApprover
    Restorations <- RestorationFiles
    RestoreMinutes = 10
    NoIncident = NoIncident
    MaxSignals = 4
    MaxDiagnostics = 2
    Intents <- ConnectivityIntents
    Topologies <- PathTables
    NetworkApprovers <- OneApprover
    NoClearance = NoClearance
SPECIFICATION ReviewsSpec
INVARIANTS
    OrderIsRight DrillIsEarned BillIsBorne QueueIsSound LedgerBalances KeptIntentsHold
PROPERTIES
    WaveTurnsForCause PraiseIsEarned UndoneForCause BilledOnce PromotedForCause FindsEveryConsumer EligibleForCause
    PassIsEarned LoopsDoNotHelp ReportsOnlyWiden
CHECK_DEADLOCK FALSE
