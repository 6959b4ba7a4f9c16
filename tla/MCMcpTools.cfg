\* SSE: two sessions, two handlers at a time, four requests, tools that move
\* between two services, and aspects with and without a service-id.
CONSTANTS
  Handlers = {h1, h2}
  Sessions = {s1, s2}
  Tools = {t1, t2}
  Services = {v1, v2}
  NoService = NoService
  MaxRequests = 4
SPECIFICATION Spec
\* The requests are used up.
CHECK_DEADLOCK FALSE
SYMMETRY MCSymmetry
INVARIANTS ListFollowsSelection SessionsSeparate CallsAnnouncedService
