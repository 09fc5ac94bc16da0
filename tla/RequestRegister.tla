--------------------------- MODULE RequestRegister ---------------------------
(***************************************************************************)
(* What the request file of one session promises to the hooks that write   *)
(* it, the collector that acknowledges it and the retention pass that      *)
(* forgets the session: every operation is one atomic step, a save merges  *)
(* its event into whatever is pending, and a request disappears only when  *)
(* everything it carries has been acknowledged, or with its session.       *)
(*                                                                         *)
(* RequestWrite, the staged optimistic write the code does, implements     *)
(* this specification.                                                     *)
(***************************************************************************)
EXTENDS Naturals

CONSTANTS
  Events,    \* what a save carries: [items, reason, at, deferred]
  Legacy,    \* requests left on disk before the program started, if any
  NoRequest  \* the session has no pending request

VARIABLES
  registered,  \* the session's registration exists
  request,     \* its pending request, [items, reasons, at, deferred], or NoRequest
  acked        \* evidence items a durable publication or decision covers

rvars == <<registered, request, acked>>

\* saveRequest / mergeRequest on the content of a request, its token aside:
\* reasons and items accumulate, an urgent event clears Deferred and advances
\* RequestedAt, a deferred one leaves both alone.
Accumulate(current, ev) ==
  IF current = NoRequest
  THEN [items |-> ev.items, reasons |-> {ev.reason}, at |-> ev.at, deferred |-> ev.deferred]
  ELSE [items    |-> current.items \union ev.items,
        reasons  |-> current.reasons \union {ev.reason},
        at       |-> IF ~ev.deferred /\ ev.at > current.at THEN ev.at ELSE current.at,
        deferred |-> current.deferred /\ ev.deferred]

Init ==
  /\ registered = TRUE
  /\ request \in Legacy \union {NoRequest}
  /\ acked = {}

Save(ev) ==
  /\ registered
  /\ request' = Accumulate(request, ev)
  /\ UNCHANGED <<registered, acked>>

\* A publication covers some evidence; the request may have grown meanwhile.
Acknowledge ==
  /\ \E S \in SUBSET UNION {ev.items : ev \in Events \union Legacy} : acked' = acked \union S
  /\ UNCHANGED <<registered, request>>

\* The request goes once all it carries is acknowledged.
Complete ==
  /\ request # NoRequest
  /\ request.items \subseteq acked
  /\ request' = NoRequest
  /\ UNCHANGED <<registered, acked>>

Forget ==
  /\ registered
  /\ registered' = FALSE
  /\ request' = NoRequest
  /\ UNCHANGED acked

Next ==
  \/ \E ev \in Events : Save(ev)
  \/ Acknowledge
  \/ Complete
  \/ Forget

Spec == Init /\ [][Next]_rvars
=============================================================================
