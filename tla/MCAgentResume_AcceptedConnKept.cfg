\* A connection Accept has returned is not closed by Accept's own failure path.
CONSTANT CheckAcceptingClose = TRUE
SPECIFICATION Spec
INVARIANT AcceptedConnKept
