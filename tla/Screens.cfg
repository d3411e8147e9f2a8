SPECIFICATION Spec
CONSTANTS
  Slides = {"s1", "s2"}
  Listeners = {"x", "y"}
  NoSlide = NoSlide
  MaxFetches = 2
  MaxEvents = 4
  Prompts = {"s1", "s2"}
  NoPrompt = NoPrompt
  MaxGets = 2
  MaxMoves = 5
  Cards = {"c1", "c2", "c3"}
  MaxEdits = 2
  MaxOps = 4
  Questions = {"q1", "q2"}
  FirstQuestions = {"q1", "q2"}
  NoQuestion = NoQuestion
  MaxTypings = 1
  MaxHandlers = 2
  PAGE = 1
  MaxNotices = 2
  MaxLoads = 2
  MaxClicks = 1
  NotYet = NotYet
  Kinds = {"sync_completed", "sync_failed"}
  MaxCopies = 1
  MaxFlips = 3
  Unloaded = Unloaded
  MaxAsked = 2
  MaxServerSteps = 2
  MaxFailures = 1
  DialogRows = {"r1", "r2"}
  MaxTouches = 3
  NoRow = NoRow
  Keys = {"k1", "k2"}
  MaxUses = 4
  NoKey = NoKey
  People = {"a", "b"}
  Spaces = {1, 2}
  Looks = {"light", "dark"}
  MaxSessionOps = 2
  Nobody = Nobody
  Visitors = {"a", "b"}
  MAX_PENDING = 2
  MaxSights = 6
  NoVisitor = NoVisitor
  Apps = {"zoom", "youtube"}
  KeyedApps = {"zoom"}
  RowIds = {"z1", "z2", "y1"}
  AppOf <- MCAppOf
  Connected = {"z1", "y1"}
  MaxPageOps = 4
  MaxCardLoads = 2
  MaxWrites = 1
  NoConnection = NoConnection
  MaxRuleOps = 2
  NoRule = NoRule
INVARIANTS TypeOK ShowsItsQuestion JoinedIsRoomSize  LastEditWins
  ShownIsStored ActsAsAsked
PROPERTIES PagesCatchUp EditsAreSent
CHECK_DEADLOCK FALSE
