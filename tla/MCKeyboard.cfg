SPECIFICATION Spec
CONSTANTS
  Keys <- TypingKeys
  MaxEvents = 6
  MaxWire = 5
INVARIANTS
  TypeOK
  PrintsWhatIsTyped
  DecoderInStep
