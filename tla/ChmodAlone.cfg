CONSTANTS
    Forks = 4
    Meals = 2
    NTHREADS = 5
    maxsteps = 6
    Readers = {r1, r2, r3}
    Writers = {w1, w2}
    OneWriter = w1
    MAXCOUNT = 4
    numCustomers = 3
    numChairs = 2
    Rounds = 4
    MAX = 6
    BUF_SIZE = 3
    MAX_ITEMS = 7
    Messages = 10
    Unread = 2
    Guests = 3
    Places = 1
    Visits = 2
    Clients = 4
    Seats = 3
    SECONDS = 2
    Horizon = 8
    Children = 2
    NThreads = 3
    MAX_THREADS = 3
    Bursts = {1, 2}
    Typed <- TypedLines
    MaxTyped = 3
    Queried <- QueriedLines
    MaxQueried = 2
    Redirected <- RedirectedLines
    MaxRedirected = 4
    MAXFDS = 8
    Writable = {"f", "g", "h"}
    Programs = {"cat"}
    Dirs = {"d"}
    Files = {"f"}
    Borrowers = 3
    Kinds = 2
    Units = 1
    Copies = 2
    NeedUpTo = 1
    Grants = 2
    Trials = 1
    Years = {96, 97, 98, 99}
    Days = {0, 58, 59, 60, 363, 364, 365}
    Now = {0, 1200}
    Times = {0, 1200, 2359, 2360, 2400}
    Dates <- DatesAsked
    Commands <- Calendars
    AnyYear = {0, 1752, 2015}
    ModeArguments <- ModesAsked
    Lists <- FilesListed
    ModeFiles = {"f", "g"}
    Modes <- ModesFound
    Umasks <- UsersMasks
SPECIFICATION FairSpec
INVARIANT EachAsIfAlone
