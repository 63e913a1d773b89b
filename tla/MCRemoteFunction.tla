-------------------------- MODULE MCRemoteFunction -------------------------
(* RemoteFunction with a url that is taken and one that is refused.          *)
EXTENDS RemoteFunction

Plug == <<"plug">>
Path == <<"/", "power">>

MCUrls == {Plug \o <<":", "digits">> \o Path, <<"http", ":", "/", "/">> \o Plug \o Path}

\* The second range begins below zero; a float cannot tell all numbers of the
\* third apart.
MCDefaults == {[n |-> 0, range |-> r] : r \in {<<1, 3>>, <<-1, 2>>, <<0, 7>>}}

\* Hosts with and without the tokens a url is divided at, and all paths of
\* those tokens and a number up to a length.
MCTokens == {"http", "plug", "power", "digits", "big", ":", "/"}
MCHosts == {Plug, Plug \o <<"/">>, <<"digits", ":">>}
MCPaths == UNION {[1 .. n -> {"digits", ":", "/"}] : n \in 0 .. 2}

=============================================================================
