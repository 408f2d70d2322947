SPECIFICATION FairSpec
CONSTANTS
  p1 = p1
  p2 = p2
  p3 = p3
  Procs = {p1, p2, p3}
  Nobody = Nobody
  Kinds = {"memory", "manifest", "session", "gateway", "account", "install"}
  Pins = {TRUE, FALSE}
  Rounds = 2
  MaxDeaths = 1
  Faulty = {p1}
  Reuse = TRUE
  Slow = {p1}

INVARIANTS ExclusiveUnlessSlipped 
PROPERTY AbandonedIsTaken
