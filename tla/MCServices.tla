----------------------------- MODULE MCServices ------------------------------
(***************************************************************************)
(* The registry, the account loop and the detector of the services, and    *)
(* what must happen in the end in the backend and the pages it answers:    *)
(* the ingestion panel, panels and their editor, replays, and the live     *)
(* search.  A behaviour chooses one; the fairness of each module holds of  *)
(* its own steps.                                                          *)
(***************************************************************************)
EXTENDS ControlPlane, PanelData, Replay, LiveStream, SchemaRegistry, AccountState, Detector

VARIABLE place

pageVars == <<cpVars, panelVars, replayVars, streamVars>>
serviceVars == <<registryVars, acctVars, detectorVars>>
servicesVars == <<place, pageVars, serviceVars>>

SomeText == CHOOSE text \in Texts : TRUE
SomeTracker == CHOOSE p \in Trackers : TRUE

ServicesInit ==
  /\ place \in {"ingestion", "panel", "replay", "stream", "registry", "accounts", "detector"}
  /\ CPInit /\ PanelInit /\ ReplayInit /\ StreamInit /\ RegistryInit /\ AccountStateInit /\ DetectorInit
  /\ place # "panel" => ~shared /\ runtime.text = SomeText
  /\ place # "accounts" => tracking = {SomeTracker}
  /\ place # "detector" => detecting

Ingestion(A) == place = "ingestion" /\ A /\ UNCHANGED <<place, panelVars, replayVars, streamVars, serviceVars>>
InPanel(A) == place = "panel" /\ A /\ UNCHANGED <<place, cpVars, replayVars, streamVars, serviceVars>>
InReplay(A) == place = "replay" /\ A /\ UNCHANGED <<place, cpVars, panelVars, streamVars, serviceVars>>
InStream(A) == place = "stream" /\ A /\ UNCHANGED <<place, cpVars, panelVars, replayVars, serviceVars>>
InRegistry(A) == place = "registry" /\ A /\ UNCHANGED <<place, pageVars, acctVars, detectorVars>>
InAccounts(A) == place = "accounts" /\ A /\ UNCHANGED <<place, pageVars, registryVars, detectorVars>>
InDetector(A) == place = "detector" /\ A /\ UNCHANGED <<place, pageVars, registryVars, acctVars>>

ServicesNext ==
  \/ Ingestion(CPNext) \/ InPanel(PanelNext) \/ InReplay(ReplayNext) \/ InStream(StreamNext)
  \/ InRegistry(RegistryNext) \/ InAccounts(AcctNext) \/ InDetector(DetectorNext)

\* CPFairness, PanelFairness, ReplayFairness, StreamFairness and RegistryFairness.
ServicesFairness ==
  /\ \A t \in Tabs :
       /\ WF_servicesVars(Ingestion(Handler(t)))
       /\ WF_servicesVars(Ingestion(Continue(t)))
       /\ WF_servicesVars(Ingestion(Poll(t)))
  /\ WF_servicesVars(InPanel(AnswerPanel \/ RejectPanel))
  /\ WF_servicesVars(InPanel(Check))
  /\ \A t \in ReplayTabs : WF_servicesVars(InReplay(ServeReplay(t) \/ TakeAnswer(t)))
  /\ WF_servicesVars(InStream(ExitAndRestart))
  /\ \A n \in SocketIds :
       /\ WF_servicesVars(InStream(FindProgram(n)))
       /\ WF_servicesVars(InStream(Connect(n)))
       /\ WF_servicesVars(InStream(SeeClose(n)))
       /\ WF_servicesVars(InStream(Relay(n)))
       /\ WF_servicesVars(InStream(Receive(n)))
  /\ WF_servicesVars(InRegistry(RegistryStep))

ServicesSpec == ServicesInit /\ [][ServicesNext]_servicesVars /\ ServicesFairness

\* The registry hides nothing without a reason and resolves for good; the tables of
\* an account tell of each other; what the detector finds is one, and is late.
ServicesInv == RegistryInv /\ AcctInv /\ DetectorInv

\* LoadingEnds of the behaviours that are about a panel: every run of its query
\* ends, by an answer or an error, whatever else is asked meanwhile.
PanelLoadingEnds == place = "panel" => LoadingEnds

\* The pages come to rest: ingestion panels show the configuration once it stays as
\* it is, whatever their toasts said, and no panel loads for ever.
PagesSettle == PanelConverges /\ PanelLoadingEnds

\* So does the backend: replay rows are finished or orphaned, subscriptions without
\* a socket end with the next transaction, a process that cannot connect is replaced
\* by one that may; and the decoder's registry gets every version or has lost a note.
BackendSettles == RowsAreSettled /\ LeaksEnd /\ RejectedSocketsRestart /\ RegistryCatchesUp
==============================================================================
