SPECIFICATION Spec
CONSTANTS
  Size = 2
  MaxOffers = 2
  MaxCrashes = 1
  Faults = {"poll", "positions", "cancel", "store", "noid", "crash"}
INVARIANTS WorkingIsSupervised OneOffer SeenIsBooked RowWithinBroker NeverOversold EngineWaits
CHECK_DEADLOCK FALSE
