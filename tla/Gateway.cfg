\* One agent with two calls in flight: a free tool, one that needs approval and
\* a forbidden one; a token, and a budget of at most one.
SPECIFICATION FairSpec
CONSTANTS
  agent = agent
  read = read
  pay = pay
  wipe = wipe
  Agents = {agent}
  Calls = {read, pay, wipe}
  Tokens = {tok}
  NoToken = NoToken
  Slots = {s1, s2}
  Forbidden <- MCForbidden
  Gated <- MCGated
  MaxCost = 1
  MaxBudget = 1
  InitialBudget <- MCBudget
INVARIANTS EffectsAreGranted AnswerTellsEffect OverrunBounded
PROPERTIES EveryCallAnswered
