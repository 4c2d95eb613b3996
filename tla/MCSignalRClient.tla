-------------------------- MODULE MCSignalRClient ---------------------------
(* Instances of SignalRClient for TLC.                                     *)
EXTENDS SignalRClient

MCBrowser == {"WebSockets", "ServerSentEvents", "LongPolling"}

MCOffers == {<<"WebSockets", "LongPolling">>, <<"ServerSentEvents">>}

MCCalls == {1}

=============================================================================
