\* The second of two requests in a window is turned away; both may be the same
\* question of the same user in the same conversation.
SPECIFICATION AllSpec
CONSTANTS
  r1 = r1
  r2 = r2
  ana = ana
  luis = luis
  q1 = q1
  c1 = c1
  d1 = d1
  d2 = d2
  asked = asked
  wiped = wiped
  Requests = {r1, r2}
  Users = {ana}
  Questions = {q1}
  Conversations = {c1}
  MaxLevel = 2
  MaxRate = 1
  Window = 1
  CacheTTL = 1
  MaxFaults = 1
  Uploads = {d1, d2}
  Queries = {asked}
  Wipes = {wiped}
  Names = {"a.pdf", "data.pdf"}
  Containing <- MCContaining
  RagTTL = 2
  SearchTicks = 1
  Owners = {"a", "u"}
  FirstAdmin = "a"
  Numbers = {"n"}
  Kinds = {"whatsapp", "phone"}
  Languages = {"es"}
  Nobody = nobody
  LanguageTTL = 1
  MaxRequests = 4
  Planned = {ana, luis}
  DayWindow = 1
  MaxClaims = 3
INVARIANTS AgentNeedsRole AnsweredIsKept IndexedIsSearchable NumbersBelongToAccounts StaleHasReason BriefedOncePerWindow
PROPERTIES StaleTextExpires LostOnlyWhenOvertaken
CHECK_DEADLOCK FALSE
