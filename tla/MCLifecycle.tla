---------------------------- MODULE MCLifecycle -----------------------------
EXTENDS Lifecycle
ConnectionsValue == {<<"Send">>, <<"Receive">>}
=============================================================================
