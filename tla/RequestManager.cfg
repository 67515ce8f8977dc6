SPECIFICATION Spec
CONSTANTS
    r1 = r1
    r2 = r2
    r3 = r3
    SignOut = SignOut
    Quit = Quit
    NoRequest = NoRequest
    Requests <- MCRequests
    Unmanaged <- MCUnmanaged
    Priority <- MCPriority
INVARIANTS ResultIsExecuted SignOutRuns OneOwner
PROPERTIES QuitTerminates Answered
CHECK_DEADLOCK FALSE
