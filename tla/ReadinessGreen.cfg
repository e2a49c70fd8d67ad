SPECIFICATION ReadinessSpec
CONSTANT Deployments <- MCDeployments
CHECK_DEADLOCK FALSE
INVARIANTS GreenCardDials
