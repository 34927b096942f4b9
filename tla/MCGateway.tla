------------------------------- MODULE MCGateway -------------------------------
(* Values for the constants of Gateway that a cfg cannot write. *)
EXTENDS Gateway, TLC

CONSTANTS agent, read, pay, wipe

MCForbidden == {<<agent, wipe>>}

MCGated == {<<agent, pay>>}

MCBudget == agent :> 1

==============================================================================
