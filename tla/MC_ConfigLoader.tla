-------------------------- MODULE MC_ConfigLoader --------------------------
(* Small documents for ConfigLoader: every key absent, zero or one other   *)
(* value; file modes for the usual permissions, a small one, a negative    *)
(* one and a non-octal one; one or two failing helpers.                    *)
EXTENDS ConfigLoader, TLC

CONSTANTS UnsetValue

MCPorts == {0, 4750}
MCDurations == {0, 10}
MCModeStrings == {<<"0", "7", "0", "0">>, <<"0", "3", "6", "0">>,
                  <<"-", "1">>, <<"9">>}
MCInvalidChoices == {{}, {"resolvers"}, {"acl"}, {"tls"}, {"statsd", "tls"}}
MCDefaultExitTimeout == 60
MCDefaultConnectTimeout == 10
MCDefaultFileMode == 448
=============================================================================
