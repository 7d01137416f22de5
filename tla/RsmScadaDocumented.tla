-------------------------- MODULE RsmScadaDocumented --------------------------
(***************************************************************************)
(* Statements the repository's documents make of the server's routes, its  *)
(* registry and its shutdown, and that the code does not keep.             *)
(*                                                                         *)
(* A behaviour notes the promises that its steps do not keep.  The         *)
(* properties say less than the documents, only that no behaviour breaks   *)
(* all of their promises, so that one counterexample refutes each of them. *)
(***************************************************************************)
EXTENDS MCRsmParts

VARIABLE unkept   \* history: the promises not kept so far

-----------------------------------------------------------------------------
(* Routes.                                                                 *)

\* A call that crosses no other writes a reading of poor quality while the
\* interlocks permit it.
PoorPermitted ==
  \E c \in RouteCalls \ crossed :
    WriteSucceeds(c) /\ Head(pendingWrites[c]) = Write("value", route.value, "poor") /\ Permits'

\* The interlocks come to permit the substitute.
SubstitutePermitted == ~Permits /\ Permits' /\ destination'.from = "substitute"

\* A call that crosses no other fails after its first write, and the route's
\* quality stays what the call had made it at its start.
FailureUnmarked(first, quality) ==
  \E c \in RouteCalls \ crossed :
    WriteFails(c) /\ Head(pendingWrites[c]).tag # first /\ route'.quality = quality

RouteUnkept ==
  {p \in {"poor", "substitute", "failed update", "failed time-out"} :
     CASE p = "poor"            -> PoorPermitted
       [] p = "substitute"      -> SubstitutePermitted
       [] p = "failed update"   -> FailureUnmarked("value", "GOOD")
       [] p = "failed time-out" -> FailureUnmarked("good", "STALE")}

-----------------------------------------------------------------------------
(* The registry, and the shutdown.                                         *)

\* A heartbeat is answered by a controller with another program than the one
\* installed, it stays ONLINE, and the runtime ids go on naming the tags of the
\* program that it does not run any more.
OldIdsResolve ==
  HeartbeatAnswered /\ ctl' = "ONLINE" /\ runtimeIds' # <<>> /\ controller.program # installed

\* The close of the service ends and the historian has not been closed.
ClosedUnflushed == shutdown # "raised" /\ shutdown' = "raised"

BrokerUnkept ==
  {p \in {"ids", "flush"} : CASE p = "ids" -> OldIdsResolve [] p = "flush" -> ClosedUnflushed}

-----------------------------------------------------------------------------
ScadaInit == PartsInit /\ unkept = {}

ScadaNext ==
  /\ PartsNext
  /\ unkept' = unkept \cup (CASE part = "route" -> RouteUnkept
                              [] part = "broker" -> BrokerUnkept
                              [] OTHER -> {})

ScadaSpec ==
  ScadaInit
  /\ [][ScadaNext]_<<part, vars, alarmVars, routeVars, historyVars, brokerVars, cPartVars, unkept>>

\* docs/multi-node-routing.md: every intermediate state of an energizing or
\* de-energizing route update is safe; docs/produced-consumed-tags.md: partial
\* failure makes the route bad.  An update with a poor reading energizes, a
\* time-out that crosses an update has its substitute permitted, and a route
\* whose writes fail half-way stays GOOD, or STALE.
RoutePromises == ~({"poor", "substitute", "failed update", "failed time-out"} \subseteq unkept)

\* docs/rsm-link.md, docs/tag-broker.md and docs/tag-subscriptions.md: runtime
\* ids are invalid once the program changes; docs/scada-services.md: closing
\* the service flushes the historian.  A heartbeat's answer is not looked at,
\* and a connection lost to an error makes close raise before the historian.
BrokerPromises == ~({"ids", "flush"} \subseteq unkept)
===============================================================================
