SPECIFICATION StackSpec
CONSTANTS
  ServerSet = {"s1", "s2", "s3"}
  Bases <- MCBases
  Listed <- MCListed
  Words <- MCWords
  Enabled <- MCEnabled
  Live = {"s3"}
  Local = {"read", "bash"}
  Shell = {"bash"}
  IncludeShell = TRUE
  Requested <- MCRequested
  Risk <- MCRisk
  ReadonlyTools = {"read", "quote"}
  Surfaces = {"swarm", "scheduler", "mcp_stdio", "mcp_http"}
  Modes = {"off", "observe", "enforce"}
  CheckSets <- MCCheckSets
  Args = {"plain", "prompt_url", "local_fallback"}
  MaxListAttempts = 2
  MaxCalls = 1
CHECK_DEADLOCK FALSE
INVARIANTS RegistryIsFaithful EffectsArePermitted CallsTakeEffectOnce
