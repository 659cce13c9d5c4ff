CONSTANTS
    a1 = a1  a2 = a2  b1 = b1  A = A  B = B
    Callers = {a1, a2, b1}
    Procs = {A, B}
    ProcOf <- MCProcOf
    Services = {1, 2}
    None = None
    Cmds <- MCCmds
    CallerOf <- MCCallerOf
    Scenarios <- AllScenarios
    MaxFaults = 2
SPECIFICATION SSpec
INVARIANTS KeysAgree TokenServed PortGivenBack ModeClear
PROPERTIES Refinement Terminates
CHECK_DEADLOCK FALSE
