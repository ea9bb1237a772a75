CONSTANTS
  mention1 = mention1
  mention2 = mention2
  help1 = help1
  help2 = help2
  l1 = l1
  l2 = l2
  h1 = h1
  h2 = h2
  author = author
  help = help
  wakeUp = wakeUp
  greet = greet
  None = None
  Messages = {mention1, help1, help2}
  Habitats = {h1, h2}
  HabitatOf <- MCHabitatOf
  Lives = {l1, l2}
  LivesOf <- MCLivesOf
  Actors = {author}
  ActorOf <- MCActorOf
  Commands = {help}
  CommandOf <- MCCommandOf
  GlobalGap <- CommandGap
  UserGap <- CommandFree
  Rules = {wakeUp, greet}
  RulesOf <- MCRulesOf
  Texts = {greet}
  RuleGap <- RuleTwo
  Quiet = 2
  MaxWait = 2
  DensityWindow = 1
  Density = 2
  MaxBatch = 3
  MaxScopes = 2
  MaxPacks = 2
  InjectPacks = 1
  MaxTime = 3
  MaxScheduled = 1
SPECIFICATION Spec
INVARIANTS TypeOK WokenOnce RepliedOnce NothingForgotten WaitsBounded
CHECK_DEADLOCK FALSE
