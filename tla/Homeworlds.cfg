\* A player starts two terminals at once.
CONSTANTS
  Handlers = {"h1", "h2"}
  MaxAttempts = 2
  Users = {"u1"}
  Universes = {"milky way"}
  Slots = {4, 5}
SPECIFICATION Spec
INVARIANT OneHomeworld
