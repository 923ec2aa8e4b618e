-------------------------------- MODULE MCCli --------------------------------
(* Up to three --files, and the builds of asvisor.                           *)
EXTENDS Cli

MCIsols == 1..3

\* Every combination of features and options.
MCBuilds == [multi : BOOLEAN, debug : BOOLEAN, preload : BOOLEAN]
==============================================================================
