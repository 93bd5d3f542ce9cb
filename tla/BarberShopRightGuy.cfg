CONSTANTS
    totalcustomers = 2
    totalbarbers = 2
    maxcapacity = 2
    totalchairs = 2
    totalfilmfares = 0
SPECIFICATION Spec
INVARIANT RightGuy
