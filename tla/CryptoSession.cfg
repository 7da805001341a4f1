CONSTANTS
  SeqSpace = 12
  WordBits = 2
  Window = 5
  MaxSent = 15
  MaxRekeys = 1
SPECIFICATION Spec
INVARIANTS
  DeliveredOnce
  BitmapIsHistory
PROPERTIES
  ImplementsIdealWindow
