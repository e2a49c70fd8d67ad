SPECIFICATION ReadinessSpec
CONSTANT Deployments <- MCDeployments
CHECK_DEADLOCK FALSE
INVARIANTS CardIsTrue PreflightPredictsCall
PROPERTIES AdviceWorks
