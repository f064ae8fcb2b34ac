----------------------------- MODULE MCGateway -----------------------------
EXTENDS Gateway

CONSTANTS s1, web, api

\* A sandbox that was exposed under one name, or two.
OneName == <<[name |-> web, port |-> 1]>>
TwoNames == <<[name |-> web, port |-> 1], [name |-> api, port |-> 2]>>

\* The labels that are asked for: a name and a port, or two names.
NameAndPort == {<<web, s1>>, <<1, s1>>}
BothNames == {<<web, s1>>, <<api, s1>>}
=============================================================================
