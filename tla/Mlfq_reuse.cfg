SPECIFICATION Spec
CONSTANTS
    Procs = {init, a}
    CPUs = {c1}
    cpu0 = c1
    init = init
    BOOST = 48
    ProcsExit = TRUE
    ProcsSleep = TRUE
    KernelTicks = FALSE
    None = None
INVARIANT QueueFits
