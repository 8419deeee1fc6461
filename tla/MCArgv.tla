------------------------------- MODULE MCArgv -------------------------------
(***************************************************************************)
(* Argv for TLC: one subcommand, two value flags (a row of flags may mix   *)
(* them), a plain token, and command lines of up to six tokens.            *)
(***************************************************************************)
EXTENDS Argv

MCSubcommands == {"read"}
MCValueFlags  == {"--server", "--server-arg"}
MCOtherTokens == {"org-cli"}

=============================================================================
