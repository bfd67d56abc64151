-------------------------- MODULE MC_FeatureAdapters --------------------------
(* Two set-up code paths, each making two factory calls: enough for one   *)
(* to register an object and the other to overwrite it or to fail to.     *)
EXTENDS FeatureAdapters

MCClients == {"c1", "c2"}
MCMaxCalls == 2

\* The gevent backend, with both communication classes.
MCGreenletAdapters == {"GreenletLock", "GreenletCommunicationSpec", "GreenletCommunication"}

\* The asyncio backend.
MCAsyncAdapters == {"AsyncLock", "AsyncCommunication"}
=============================================================================
