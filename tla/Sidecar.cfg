SPECIFICATION SidecarSpec
CONSTANTS
  http = http
  https = https
  socket = socket
  Producers = {http, https, socket}
  Sockets = {socket}
  Servers = 2
  ServerOf <- MCServerOf
  Records = {r1, r2}
  NoRecord = NoRecord
  QueueSize = 1
  Inputs <- OneInput
  Configs <- DefaultConfig
INVARIANTS
  QueueOutlivesRequests
  ExitLosesNothingInTime
PROPERTIES
  ProcessExits
CHECK_DEADLOCK FALSE
