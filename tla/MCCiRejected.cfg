SPECIFICATION CiSpec
CONSTANTS
    bump = bump
    fuzz = fuzz
    b1 = b1
    b2 = b2
    f1 = f1
    Workflows = {bump, fuzz}
    WorkflowOf <- MCWorkflowOf
    Jobs = {check, cross}
    MayOverlap = FALSE
    MaxCommits = 4
    Runs = {b1}
INVARIANT
    FailedKept
