SPECIFICATION Spec
CONSTANTS
    Producer = {p1, p2}
    Consumer = {c1}
    n_queue = 2
    PageSizes = {1}
    Capacity = 1
    MaxTickets = 3
    Upsets = {"abort"}
    MaxUpsets = 1
    QuietAborts = TRUE
PROPERTIES PushNotStuck
CHECK_DEADLOCK FALSE
