CONSTANTS
  c1 = c1  c2 = c2  c3 = c3
  shop = shop  rival = rival  board = board  timer = timer
  r1 = r1  r2 = r2  k1 = k1  k2 = k2  m1 = m1  m2 = m2  m3 = m3
  alice = alice  note = note  None = None
  RequestIds = {r1}
  Keys = {k1}
  Matters = {m1, m2, m3}
  Undigested = {m3}
  Instances <- MCInstances
  Requesters <- MCRequesters
  Deciders = {board}
  Expirers = {timer}
  Actors = {alice}
  EvidenceRefs = {note}
  Reasons = {note}
  Inputs <- LifecycleInputs
  Calls = {c1, c2}
  MaxTime = 3
  Resolution = 1
  Skew = 1
SPECIFICATION Spec
SYMMETRY Symmetry
PROPERTIES
  IdenticalRetryAnswered
