---------------------------- MODULE MCServerRuntime ----------------------------
(***************************************************************************)
(* Configuration for the calls of the server runtime: the tool router, and *)
(* the control channel that carries what it sends to the peer.  They share *)
(* no state: the initial state chooses one, and only that one takes steps. *)
(***************************************************************************)
EXTENDS ControlChannel, ToolRouter

CONSTANTS
  tool, hook,  \* a remote tool call, and a hook that shares the channel with it
  t1, t2       \* tools of the router

VARIABLE part  \* the component that takes steps

\* Lists that overlap, so that sides and servers compete for names.
ThreeLists == {<<t1>>, <<t2>>, <<t1, t2>>}
Gate == [d \in Destinations |-> IF d = "local" THEN {t1} ELSE {t1, t2}]

MCInit == part \in {"channel", "router"} /\ Init /\ RouterInit

\* Everything but what the named component keeps stays as it is.
Only(name) ==
  /\ part = name /\ UNCHANGED part
  /\ name # "channel" => UNCHANGED vars
  /\ name # "router" => UNCHANGED routerVars

MCNext ==
  \/ Only("channel") /\ Next
  \/ Only("router") /\ RouterNext

MCVars == <<part, vars, routerVars>>

\* Threads run, and time passes; the peer need not do anything.
MCFairness ==
  /\ WF_MCVars(Only("channel") /\ Tick)
  /\ \A r \in Requests : WF_MCVars(Only("channel") /\ Step(r))

MCSpec == MCInit /\ [][MCNext]_MCVars /\ MCFairness

===============================================================================
