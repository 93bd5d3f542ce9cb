\* One chair, so that customers do queue to read; every customer waits.
CONSTANTS
    totalcustomers = 3
    totalbarbers = 2
    maxcapacity = 2
    totalchairs = 1
    totalfilmfares = 1
SPECIFICATION FairSpec
PROPERTIES
    ImplementsService AllServed
