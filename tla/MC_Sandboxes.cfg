\* Two sessions, two containers and two ports; two calls, two agents, an allowed package in two versions and one that is not.
SPECIFICATION SandboxSpec
CONSTANTS
    None = None
    Sandboxes = {s1, s2}
    MaxContainers = 2
    Ports = {p1, p2}
    Executions = {k1, k2}
    Agents = {a1, a2}
    Codes <- MCCodes
    Imports = {"re"}
    Available = {"re", "os"}
    ForbiddenNames = {"eval"}
    Specs = {v1, v2, bad}
    AllowedSpecs = {v1, v2}
SYMMETRY MCSymmetry
CHECK_DEADLOCK FALSE
INVARIANTS
    SandboxesConsistent
    LeakOnlyOnFailure
    SetupIsExclusive
    DepsUndisturbed
