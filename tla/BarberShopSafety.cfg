\* More people than chairs and a copy of Filmfare to wait with.
CONSTANTS
    totalcustomers = 3
    totalbarbers = 2
    maxcapacity = 3
    totalchairs = 2
    totalfilmfares = 1
SPECIFICATION Spec
INVARIANTS
    TypeOK NobodysLap ChairForTicket ReadsNeverBlock CutsSeatedCustomer
    ReceiptForPayer
