---------------------------- MODULE MCProviders -----------------------------
(* The components on the way to a provider, side by side: a behaviour picks   *)
(* one of them at its start and stays in it, so one run explores each of them *)
(* on its own.  They share no state in the code beyond the account lease,     *)
(* which their callers hold.                                                  *)
EXTENDS ManagedAccount, AccountProcess, ManagedSession, CodexRelay, CodexCustody, SingleRun,
    OfflineDiagnostic

VARIABLE component

providerVars == <<component, accountVars, processVars, sessionVars, relayVars, custodyVars, singleVars, offlineVars>>

ProvidersInit ==
    /\ component \in {"account", "process", "session", "relay", "codex", "single", "offline"}
    /\ AccountInit /\ ProcessInit /\ SessionInit /\ RelayInit
    /\ CodexCustodyInit /\ SingleInit /\ OfflineInit
    \* The other components start beside one of the states these Inits offer.
    /\ component # "session" => native.honest
    /\ component # "account" => ~prov.signed
    /\ component # "single" => \A c \in Contacts : single[c].via = "api" /\ single[c].work = "classify"
    \* Bound: one of the runs is a classifier, which calls no tools.
    /\ \E c \in Contacts : single[c].work = "classify"

ProvidersNext ==
    /\ UNCHANGED component
    /\ \/ /\ component = "account" /\ AccountNext
          /\ UNCHANGED <<processVars, sessionVars, relayVars, custodyVars, singleVars, offlineVars>>
       \/ /\ component = "process" /\ ProcessNext
          /\ UNCHANGED <<accountVars, sessionVars, relayVars, custodyVars, singleVars, offlineVars>>
       \/ /\ component = "session" /\ SessionNext
          /\ UNCHANGED <<accountVars, processVars, relayVars, custodyVars, singleVars, offlineVars>>
       \/ /\ component = "relay" /\ RelayNext
          /\ UNCHANGED <<accountVars, processVars, sessionVars, custodyVars, singleVars, offlineVars>>
       \/ /\ component = "codex" /\ CodexCustodyNext
          /\ UNCHANGED <<accountVars, processVars, sessionVars, relayVars, singleVars, offlineVars>>
       \/ /\ component = "single" /\ SingleNext
          /\ UNCHANGED <<accountVars, processVars, sessionVars, relayVars, custodyVars, offlineVars>>
       \/ /\ component = "offline" /\ OfflineNext
          /\ UNCHANGED <<accountVars, processVars, sessionVars, relayVars, custodyVars, singleVars>>

\* The fairness of each component, for the behaviours that are in it.
ProvidersFairness ==
    /\ WF_accountVars(component = "account" /\ ControllerStep)
    /\ WF_accountVars(component = "account" /\ TimeOut)
    /\ WF_accountVars(component = "account" /\ CloseStep)
    /\ \A h \in Handles : WF_processVars(component = "process" /\ StopStep(h))
    /\ WF_sessionVars(component = "session" /\ SessionStep)
    /\ WF_sessionVars(component = "session" /\ Interrupted)
    /\ WF_relayVars(component = "relay" /\ CodexStep)
    /\ WF_relayVars(component = "relay" /\ Breaks)
    /\ WF_relayVars(component = "relay" /\ StopProcess)
    /\ WF_relayVars(component = "relay" /\ RelayJoin)
    /\ WF_relayVars(component = "relay" /\ HandlersJoin)
    /\ WF_custodyVars(component = "codex" /\ LaunchStep)
    /\ WF_custodyVars(component = "codex" /\ StopCodexStep)

ProvidersSafety == ProvidersInit /\ [][ProvidersNext]_providerVars
ProvidersSpec == ProvidersSafety /\ ProvidersFairness

\* Every session ends, and so does every stop of a managed one, although native,
\* upstream and broker may hang: each wait of codex-managed-session.ts, of
\* codex-session.ts and of the stop in codex-process.ts has a deadline of its
\* own, and a stop of a codex that survives its signals still ends.
SessionsEnd ==
    /\ (slot.run = "session") ~> (slot.run \in {"completed", "failed"})
    /\ (slot.stop = "waiting") ~> (slot.stop # "waiting")
    /\ component = "relay" ~> run.at = "ended"
    /\ component = "codex" /\ launch.asked ~> launch.at = "closed" \/ ~launch.up
=============================================================================
