SPECIFICATION Spec
CONSTANT CheckAcceptingClose = FALSE
INVARIANT NoPanicInRescue
