SPECIFICATION FairSpec
CONSTANTS
  game = game
  tool = tool
  remote = remote
  linked = linked
  claim = claim
  own = own
  far = far
  farClaim = farClaim
  target = target
  link = link
  mount = mount
  g1 = g1
  g2 = g2
  g3 = g3
  Processes = {game, tool, remote}
  Callers <- AllCallers
  ProcessOf <- Where
  Files = {target, link, mount}
  First <- FirstFile
  Second <- SecondFile
  NoLocks = {mount}
  Waiting = {linked, own, far}
  Gates = {g1, g2, g3}
  None = None
INVARIANTS
  Exclusion
  NothingIsLeft
PROPERTIES
  SomebodyGetsIn
