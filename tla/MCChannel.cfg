SPECIFICATION Spec
CONSTANTS
    Fds = {0, 1, 2}
    kinit_event_list_size = 1
INVARIANTS
    KernelFollowsChannels
    SameActive
PROPERTIES
    ImplementPoller
CHECK_DEADLOCK FALSE
