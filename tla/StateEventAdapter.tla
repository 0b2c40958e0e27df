------------------------- MODULE StateEventAdapter -------------------------
(***************************************************************************)
(* StateEventAdapter stands between the daemon and a session's machine: it *)
(* counts the clients' requests and notifications by id and tells the      *)
(* machine of the transitions that matter.  Every disallowance and every   *)
(* notification reaches the machine; their end reaches it when the last id *)
(* is gone.                                                                *)
(***************************************************************************)
EXTENDS DefaultStateMachine

\* The end of a request that was never made reaches the machine too, when no
\* other request is held.
AdapterEnableInactivityTimeout(w, id) ==
  LET v == [w EXCEPT !.inactivityRequests = w.inactivityRequests \ {id}]
  IN IF v.inactivityRequests = {} THEN HandleEnableInactivityTimeout(v) ELSE v

AdapterDisableInactivityTimeout(w, id) ==
  HandleDisableInactivityTimeout(
    [w EXCEPT !.inactivityRequests = w.inactivityRequests \cup {id}])

AdapterNotification(w, id) ==
  HandleNotification([w EXCEPT !.notifications = w.notifications \cup {id}])

\* The end of an unknown notification is dropped.
AdapterNotificationDone(w, id) ==
  LET v == [w EXCEPT !.notifications = w.notifications \ {id}]
  IN IF id \in w.notifications /\ v.notifications = {} THEN HandleNoNotification(v) ELSE v

\* Mutant: the first client to allow it allows it for all.
AdapterAllowSuspendForAll(w, id) ==
  HandleAllowSuspend([w EXCEPT !.suspendRequests = w.suspendRequests \ {id}])

AdapterAllowSuspend(w, id) ==
  LET v == [w EXCEPT !.suspendRequests = w.suspendRequests \ {id}]
  IN IF v.suspendRequests = {} THEN HandleAllowSuspend(v) ELSE v

AdapterDisallowSuspend(w, id) ==
  HandleDisallowSuspend(
    [w EXCEPT !.suspendRequests = w.suspendRequests \cup {id}])

=============================================================================
