\* Two producers of one plan, one cancelled now and then, a slow handler before or behind the buffer, one stream. The bound on events ends the run.
SPECIFICATION PlanFairSpec
CONSTANTS
    task = task
    subtask = subtask
    gone = gone
    None = None
    Items = {task, subtask}
    Missing = {gone}
    TaskOf <- Tasks
    Producers = {p1, p2}
    Clients = {c1}
    Cancellable = {p1}
    Registered <- BothOrders
    QueueSize = 2
    BufferSize = 2
    MaxEvents = 3
CHECK_DEADLOCK FALSE
INVARIANTS
    StreamsAreSound
    PlanIsMirrored
PROPERTY
    EmissionsEnd
