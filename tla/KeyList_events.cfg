SPECIFICATION FairSpec
CONSTANTS
  MaxVersion = 2
  MaxStreams = 4
  MaxEvents = 1
  MaxFaults = 3
INVARIANTS TypeOK AckedEventsFetched OneStream
PROPERTIES DisablingReachesList EventsAreAcknowledged
