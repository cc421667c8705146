\* Resume and Accept with every interleaving of the agent, the timeout and the caller's cancel.
CONSTANT CheckAcceptingClose = TRUE
SPECIFICATION Spec
INVARIANTS TypeOK FailedResumeRescued
PROPERTIES ResumeReturns RescueAfterAgentClosed RunnerCloseReturns
