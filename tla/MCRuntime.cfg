CONSTANTS
  c1 = c1
  c2 = c2
  Stop = Stop
  Caller = {c1, c2}
  Noise = {"text", "scalar"}
  MaxCalls = 1
  MaxNoise = 1
  p = p
  q = q
  Plugin = {p, q}
  MaxEdits = 1
  MaxWatches = 2
  MaxPollers = 2
  all = all
  one = one
  news = news
  logs = logs
  Subs = {all, one}
  Tools = {one}
  Topics = {news, logs}
  MaxEvents = 2
SPECIFICATION AllFair
CHECK_DEADLOCK FALSE
INVARIANTS RuntimeInv
PROPERTIES WaitsEnd
