CONSTANTS
  Clients = {"ndt", "multi_ndt", "dash", "collector", "orchestrate", "dns", "web_connectivity",
             "facebook_messenger", "whatsapp", "http_invalid_request_line", "parallel"}
  MaxStreams = 2
  MaxTests = 2
  SampleCounts = {0, 8, 9, 10}
  MaxNegotiations = 2
  MaxIterations = 3
  Speeds = {0, 101, 3000, 60000}
  Times = {1, 3}
  Targets = {0, 2, 60, 400}
  Bitrates = {0, 4000}
  MaxLines = 3
  MaxOps = 4
  MaxTime = 4
  Lifetime = 1
  Public = {"192.0.2.1", "192.0.2.2"}
  Private = {"10.0.0.1"}
  Ports = {443}
  MaxAnswers = 2
  Sizes = {0, 1, 2, 3, 4, 5}
  Widths = {0, 1, 2, 3}
SPECIFICATION FairSpec
INVARIANTS TypeOK NdtRecords FlowsAreTogether DashRight ReportAccounted BaseFreedOnce VerdictSound WidthRespected CallbackIsLast
PROPERTIES ClientsAreSessions ClientEnds CredentialsSound
CHECK_DEADLOCK FALSE
