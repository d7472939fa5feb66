----------------------------- MODULE ToolStack -----------------------------
(***************************************************************************)
(* The tools an agent is given: the registry that is built from the local  *)
(* tools and the configured MCP servers, the whitelist of a swarm worker,  *)
(* the governance wrapper that decides every call, and the remote call.    *)
(*                                                                         *)
(* A name is the sequence of its words, as in mcp_<server>_<tool>: what    *)
(* matters of sanitising and joining is that different names can come out  *)
(* the same.  A hash suffix is a word of its own.                          *)
(***************************************************************************)
EXTENDS Naturals, FiniteSets, SequencesExt

CONSTANTS
  ServerSet,  \* the configured MCP servers
  Bases,      \* what their names may be once sanitised
  Listed,     \* the tools each server lists, in its order
  Words,      \* the sanitised name of each remote tool
  Enabled,    \* enabled_tools of each server, "*" included
  Live,       \* servers that are live brokers
  Local, Shell,        \* names of local tools; of those, the shell tools
  IncludeShell,
  Requested,  \* the worker's whitelist
  Risk,       \* the risk level classified for each tool; Readonly: is_readonly
  ReadonlyTools,
  Surfaces, Modes, CheckSets, Args,  \* what a call's context and arguments may be
  MaxListAttempts,                   \* max_list_tools_attempts
  MaxCalls                           \* bound on the calls made

Levels == {"R0_READ", "R1_WRITE_LOCAL", "R2_NETWORK", "R3_TRADE_READ", "R4_TRADE_WRITE",
           "R5_SHELL", "UNCLASSIFIED"}
Checks == {"mandate_active", "kill_switch_clear", "explicit_user_consent", "live_order_guard",
           "connector_profile_selected"}
Exposed == {"remote_api", "mcp_sse", "mcp_http", "channel_bot"}

Orders == {o \in [1..Cardinality(ServerSet) -> ServerSet] : IsInjective(o)}
RemoteTools == UNION {ToSet(Listed[s]) : s \in ServerSet}
ToolIds == RemoteTools \cup Local

ASSUME StackAssumption ==
  /\ IsFiniteSet(ServerSet) /\ Bases \subseteq Seq(STRING)
  /\ Risk \in [ToolIds -> Levels] /\ ReadonlyTools \subseteq ToolIds
  /\ Shell \subseteq Local /\ IncludeShell \in BOOLEAN /\ Live \subseteq ServerSet
  /\ MaxListAttempts \in Nat \ {0} /\ CheckSets \subseteq SUBSET Checks

VARIABLES
  config,    \* agent config: the servers in their order, and the name of each
  context,   \* the wrapper's RuntimeContext: surface, mode, checks
  phase,     \* "discover", "filter", "ready"
  at,        \* the server whose tools are being discovered
  attempt,   \* attempts of list_tools spent on it
  registry,  \* local name -> [tool, server]
  answered, unreachable,  \* servers whose list_tools succeeded, or failed for good
  pending,   \* the call under way, [stage |-> "none"] between calls
  calls,     \* calls made so far
  effects,   \* how often the tool of a call has taken effect, for each call
  verdicts   \* what the wrapper decided, for each call

stackVars == <<config, context, phase, at, attempt, registry, answered, unreachable, pending, calls, effects, verdicts>>

NothingPending == [stage |-> "none"]
Servers == config.order
Names == DOMAIN registry

-----------------------------------------------------------------------------
(* Names of the servers and of their tools. *)

\* resolve_mcp_server_tool_name_segments, for one server: its own name when
\* no other server has it, else the name with a suffix that is still free
SegmentOf(base, s, taken) ==
  IF base[s] \notin taken /\ \A t \in ServerSet \ {s} : base[t] # base[s]
  THEN base[s]
  ELSE CHOOSE x \in {Append(base[s], "#" \o s \o salt) : salt \in {"", ":1", ":2", ":3"}} : x \notin taken

\* ... and for all of them, in the order of configuration cf
Segments(cf) ==
  FoldLeft(LAMBDA seg, s : [t \in DOMAIN seg \cup {s} |->
             IF t = s THEN SegmentOf(cf.base, s, {seg[u] : u \in DOMAIN seg}) ELSE seg[t]],
           [t \in {} |-> <<>>], cf.order)

\* _dedupe_local_tool_name
LocalName(segment, tool, seen) ==
  LET plain == segment \o Words[tool]
  IN  IF plain \in seen THEN Append(plain, "#" \o tool) ELSE plain

ToolIsEnabled(s, tool) == "*" \in Enabled[s] \/ tool \in Enabled[s]

\* discover_tools: local names of the enabled tools of a server
Specs(cf, s) ==
  LET segment == Segments(cf)[s]
  IN  FoldLeft(LAMBDA acc, tool :
                 IF ToolIsEnabled(s, tool)
                 THEN [n \in DOMAIN acc \cup {LocalName(segment, tool, DOMAIN acc)} |->
                         IF n \in DOMAIN acc THEN acc[n] ELSE [tool |-> tool, server |-> s]]
                 ELSE acc,
               [n \in {} |-> <<>>], Listed[s])

\* _prune_agent_config_for_swarm_tools: a server is asked only when some
\* requested name begins with its prefix
Selected(cf, s) == \E n \in Requested : IsStrictPrefix(Segments(cf)[s], n)

\* register: the tool of that name is replaced
Registered(old, new) ==
  [n \in DOMAIN old \cup DOMAIN new |-> IF n \in DOMAIN new THEN new[n] ELSE old[n]]

-----------------------------------------------------------------------------
(* build_swarm_registry *)

\* build_registry: the local tools come first, shell tools only on request
LocalTools ==
  [n \in {<<t>> : t \in IF IncludeShell THEN Local ELSE Local \ Shell} |-> [tool |-> n[1], server |-> "local"]]

\* A live broker's tools stay hidden, and a server nobody asked for is left alone.
SkipServer ==
  /\ phase = "discover" /\ at <= Len(Servers)
  /\ Servers[at] \in Live \/ ~ Selected(config, Servers[at])
  /\ at' = at + 1
  /\ UNCHANGED <<config, context, phase, attempt, registry, answered, unreachable, pending, calls, effects, verdicts>>

ListTools ==
  /\ phase = "discover" /\ at <= Len(Servers)
  /\ Servers[at] \notin Live /\ Selected(config, Servers[at])
  /\ registry' = Registered(registry, Specs(config, Servers[at]))
  /\ answered' = answered \cup {Servers[at]}
  /\ at' = at + 1 /\ attempt' = 0
  /\ UNCHANGED <<config, context, phase, unreachable, pending, calls, effects, verdicts>>

\* Mutant: the failure of one server abandons the ones after it.
AfterFailureStop == Len(Servers) + 1

\* The next server to ask after one has failed
AfterFailure == at + 1

\* _run_with_retry
RetriesLeft == attempt + 1 < MaxListAttempts

\* list_tools fails: a transient failure is retried while attempts are left,
\* and a server that cannot be reached is skipped.
ListFails(transient) ==
  /\ phase = "discover" /\ at <= Len(Servers)
  /\ Servers[at] \notin Live /\ Selected(config, Servers[at])
  /\ IF transient /\ RetriesLeft
     THEN attempt' = attempt + 1 /\ UNCHANGED <<at, unreachable>>
     ELSE attempt' = 0 /\ at' = AfterFailure /\ unreachable' = unreachable \cup {Servers[at]}
  /\ UNCHANGED <<config, context, phase, registry, answered, pending, calls, effects, verdicts>>

\* _filter_registry, and govern_registry around the result
Filter ==
  /\ phase = "discover" /\ at > Len(Servers)
  /\ registry' = [n \in Names \cap Requested |-> registry[n]]
  /\ phase' = "ready"
  /\ UNCHANGED <<config, context, at, attempt, answered, unreachable, pending, calls, effects, verdicts>>

-----------------------------------------------------------------------------
(* The policy. *)

\* ManifestCache: an unclassified tool of the registry counts as a read or a
\* local write, and a name the registry does not have as unclassified.
RiskLevel(n) ==
  IF n \notin Names THEN "UNCLASSIFIED"
  ELSE LET t == registry[n].tool
       IN  IF Risk[t] # "UNCLASSIFIED" THEN Risk[t]
           ELSE IF t \in ReadonlyTools THEN "R0_READ" ELSE "R1_WRITE_LOCAL"

\* Mutant: any of the five checks is enough.
AllChecksAny(c) == c.checks # {}

\* allow_if_all, over what live_state, user_auth_state and budget_state say
AllChecks(c) == Checks \subseteq c.checks

\* _builtin_rules by priority: who is hit, and what then happens.  P10 needs
\* a tool whose live class is unknown, and only the wrappers of a live broker
\* have one, which the registry never holds.
Rules(c, n, arg) ==
  LET risk == RiskLevel(n)
  IN  << [hit |-> c.surface \in Exposed /\ risk = "R5_SHELL", act |-> "deny"],                        \* P20
         [hit |-> c.surface = "scheduler" /\ risk \in {"R4_TRADE_WRITE", "R5_SHELL"}, act |-> "deny"], \* P30
         [hit |-> c.surface = "swarm" /\ arg = "prompt_url", act |-> "deny"],                          \* P35
         [hit |-> risk = "R4_TRADE_WRITE", act |-> IF AllChecks(c) THEN "allow" ELSE "deny"],          \* P40
         [hit |-> arg = "local_fallback", act |-> "deny"],                                             \* P50
         [hit |-> c.surface = "mcp_stdio" /\ risk = "R0_READ"
                    /\ n \in Names /\ registry[n].tool \in ReadonlyTools, act |-> "allow"],            \* P100
         [hit |-> risk = "UNCLASSIFIED", act |-> IF c.mode = "enforce" THEN "deny" ELSE "warn"],        \* P900
         [hit |-> TRUE, act |-> "deny"] >>                                                             \* P999

\* _must_fail_closed
MustFailClosed(c, n) ==
  \/ RiskLevel(n) \in {"R4_TRADE_WRITE", "R5_SHELL"}
  \/ c.surface \in Exposed \cup {"swarm", "scheduler", "live_connector"}

\* The rule that decides: the first that matches
FirstHit(rules) == CHOOSE i \in DOMAIN rules : rules[i].hit /\ \A j \in 1..i-1 : ~ rules[j].hit

\* PolicyEngine.evaluate: the first rule that matches decides; an exception
\* in a rule is a denial where it has to be and a warning elsewhere
Evaluate(c, n, arg, raises) ==
  IF raises THEN IF MustFailClosed(c, n) THEN "deny" ELSE "warn"
  ELSE LET rules == Rules(c, n, arg) IN rules[FirstHit(rules)].act

\* GovernedToolRegistry.execute: a denial stops the call in enforce mode, and
\* in the other modes too when the tool trades or runs a shell
Blocked(c, n, act) ==
  act = "deny" /\ (c.mode = "enforce" \/ RiskLevel(n) \in {"R4_TRADE_WRITE", "R5_SHELL"})

-----------------------------------------------------------------------------
(* A call. *)

Execute(n, arg, raises) ==
  LET act == IF context.mode = "off" THEN "off" ELSE Evaluate(context, n, arg, raises)
  IN  /\ phase = "ready" /\ pending = NothingPending /\ Len(calls) < MaxCalls
      /\ calls' = Append(calls, [name |-> n, arg |-> arg, level |-> RiskLevel(n)])
      /\ verdicts' = Append(verdicts, act) /\ effects' = Append(effects, 0)
      /\ pending' = IF Blocked(context, n, act) \/ n \notin Names THEN NothingPending
                 ELSE [stage |-> IF registry[n].server = "local" THEN "local" ELSE "remote", name |-> n]
      /\ UNCHANGED <<config, context, phase, at, attempt, registry, answered, unreachable>>

\* The tool does its work; an exception becomes an error result.
Took(n) == [effects EXCEPT ![Len(effects)] = @ + n]

RunLocal ==
  /\ pending.stage = "local"
  /\ effects' \in {effects, Took(1)} /\ pending' = NothingPending
  /\ UNCHANGED <<config, context, phase, at, attempt, registry, answered, unreachable, calls, verdicts>>

\* Mutant: a call whose answer does not come is sent again.
AfterLossRetried == [pending EXCEPT !.stage = "remote"]

\* _call_tool is not retried: the server may have acted before the answer was lost
AfterLoss == NothingPending

\* The remote server acts and answers, refuses, or acts and its answer is lost.
CallRemote ==
  /\ pending.stage = "remote"
  /\ \/ effects' \in {effects, Took(1)} /\ pending' = NothingPending
     \/ effects' = Took(1) /\ pending' = AfterLoss
  /\ \A i \in DOMAIN effects' : effects'[i] <= 2
  /\ UNCHANGED <<config, context, phase, at, attempt, registry, answered, unreachable, calls, verdicts>>

StackInit ==
  /\ config \in [order: Orders, base: [ServerSet -> Bases]]
  /\ context \in [surface: Surfaces, mode: Modes, checks: CheckSets]
  /\ phase = "discover" /\ at = 1 /\ attempt = 0
  /\ registry = LocalTools /\ answered = {} /\ unreachable = {}
  /\ pending = NothingPending /\ calls = <<>> /\ effects = <<>> /\ verdicts = <<>>

StackNext ==
  \/ SkipServer \/ ListTools \/ Filter \/ RunLocal \/ CallRemote
  \/ \E transient \in BOOLEAN : ListFails(transient)
  \/ \E n \in Requested, arg \in Args, raises \in BOOLEAN : Execute(n, arg, raises)

StackSpec == StackInit /\ [][StackNext]_stackVars

-----------------------------------------------------------------------------
\* The servers that answered and have an enabled tool of that name.
Claimants(n) == {i \in 1..Len(Servers) : Servers[i] \in answered /\ n \in DOMAIN Specs(config, Servers[i])}

\* A name is in the registry exactly when a local tool or a server that
\* answered has it, and it stands for the tool of the last of them.
IsBound(n) ==
  LET c == Claimants(n)
  IN  /\ n \in Names <=> n \in DOMAIN LocalTools \/ c # {}
      /\ n \in Names /\ c = {} => registry[n] = LocalTools[n]
      /\ \A i \in c : (\A j \in c : j <= i) => registry[n] = Specs(config, Servers[i])[n]

\* One server's failure costs the worker that server's tools only: every
\* requested name is bound as though the servers that failed did not exist,
\* nothing else is bound, and every wanted server was really tried.
FailureIsIsolated ==
  phase = "ready" =>
    /\ Names \subseteq Requested /\ \A n \in Requested : IsBound(n)
    /\ \A s \in ServerSet \ Live : Selected(config, s) => s \in answered \cup unreachable

\* However the sanitised names of the servers collide and in whatever order
\* they are configured, no two servers share a prefix, and no server loses a
\* tool to another of its own.
PrefixesAreUnique ==
  /\ \A s, t \in ServerSet : s # t => Segments(config)[s] # Segments(config)[t]
  /\ \A s \in ServerSet :
       Cardinality(DOMAIN Specs(config, s)) = Cardinality({t \in ToSet(Listed[s]) : ToolIsEnabled(s, t)})

\* The registry is what was configured: failures cost their own server only,
\* servers have prefixes of their own and a server's tools names of their own.
RegistryIsFaithful == FailureIsIsolated /\ PrefixesAreUnique

\* What the prefixes are for (mcp.py:193, "so local tool names remain unique"):
\* no server that answered loses a requested tool to another server.
LocalNamesAreUnique ==
  phase = "ready" =>
    \A s \in answered : \A n \in Requested \cap DOMAIN Specs(config, s) :
      registry[n] = Specs(config, s)[n]

\* Governed, a tool that trades takes effect only with all five checks and
\* never for the scheduler, and a tool that runs a shell not at all, in
\* every mode and even when a rule raises.
HighRiskNeedsLeave ==
  context.mode # "off" =>
    \A i \in DOMAIN effects : effects[i] > 0 =>
      /\ calls[i].level = "R4_TRADE_WRITE" => context.checks = Checks /\ context.surface # "scheduler"
      /\ calls[i].level # "R5_SHELL"

\* Enforced, nothing that was denied takes effect.
DenialsHold ==
  context.mode = "enforce" => \A i \in DOMAIN effects : verdicts[i] = "deny" => effects[i] = 0

\* What takes effect was permitted, in every mode and on every surface.
EffectsArePermitted == HighRiskNeedsLeave /\ DenialsHold

\* A call takes effect at most once, even when the answer to it is lost.
CallsTakeEffectOnce == \A i \in DOMAIN effects : effects[i] <= 1

=============================================================================
