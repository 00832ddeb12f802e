SPECIFICATION Spec
CONSTANTS
    gpu = gpu
    network = network
    watches = watches
    diag = diag
    link = link
    Modules = {gpu, network}
    Network = network
    Checks <- MCChecks
    ModuleOf <- MCModuleOf
    Background = {watches, link}
    MaxTroubles = 1
PROPERTY
    HealthyWhenResumed
