SPECIFICATION Spec
CONSTANTS
  Files = {f1, f2}
  None = None
  Mishaps = {"run", "stop", "guest", "hide", "lose", "stream", "evict"}
  MaxEvents = 3
CHECK_DEADLOCK FALSE
SYMMETRY Symmetry
INVARIANT NothingMissed
INVARIANT LastIntentWins
INVARIANT SpinnersServed
 
