\* A message put from the server's loop does not wake the main loop.
CONSTANTS
    PopulateJobs = {j1, j2}
    Capacity = 2
SPECIFICATION ServerSpec
PROPERTY EventsHandled
CHECK_DEADLOCK FALSE
