\* One token for either of two calls, two clusters, a requester and two approvers.
SPECIFICATION Spec
CONSTANTS
  Clusters = {east, west}
  Tokens = {tok}
  Actors = {agent, alice, bob}
  Bindings = {pay, refund}
  Risks = {"critical", "low"}
  QuorumOf <- MCQuorumOf
  DisallowSelfApproval = TRUE
  TTL = 1
  MaxTime = 2
  MaxSnapshots = 2
INVARIANTS TypeOK QuorumBacked JoinConverges CopiesAgree GrantSound
PROPERTIES TerminalAbsorbing MonotoneWhileLive ImplementsLifecycle
SYMMETRY MCSymmetry
