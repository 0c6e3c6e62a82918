CONSTANTS
  Hosts = {a, b}
  NoHost = none
  Requests = {r1, r2}
  MaxParts = 1
  HTTP_MAX_REDIRECTS = 1
SPECIFICATION FairSpec
INVARIANTS OwnBytes RightPeer SinkContract WholeBody
 
