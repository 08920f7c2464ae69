------------------------ MODULE NotificationService -------------------------
(***************************************************************************)
(* NotificationServiceLuna: web notifications shown as alerts of the       *)
(* notification service. A createAlert call is answered with the id of the *)
(* alert, which is kept by notification until it is closed. The callback   *)
(* of a call is an LSCalloutContext, one for each notification, that is    *)
(* erased when its answer arrives; erasing it cancels the last call made   *)
(* with it.                                                                *)
(***************************************************************************)
EXTENDS Naturals, FiniteSets

CONSTANTS
  Ids,       \* notifications, by id: a page's tag, if it gives one
  Alerts,    \* the ids the notification service gives to alerts, each once
  None,      \* no id
  MaxCalls   \* bound: createAlert calls

VARIABLES
  service_handle_, \* PalmServiceBase::service_handle_
  alert_contexts,  \* notification -> the context in the map; 0 for none
  token_,          \* context -> the last call made with it; 0 for none
  alert_ids,       \* notification -> the alert it is known to be shown as
  calls,           \* the createAlert calls, in the order they were made
  shown            \* alert -> the notification it is shown for

vars == <<service_handle_, alert_contexts, token_, alert_ids, calls, shown>>

\* A call waits for the notification service, which shows an alert or refuses;
\* the answer waits for the main loop, unless it is cancelled by then.
CallType ==
  [id : Ids, context : 1..MaxCalls, state : {"sent", "answered", "ended"},
   cancelled : BOOLEAN, alert : Alerts \cup {None}]

TypeOK ==
  /\ service_handle_ \in {"none", "registered", "unregistered"}
  /\ alert_contexts \in [Ids -> 0..MaxCalls]
  /\ token_ \in [1..MaxCalls -> 0..MaxCalls]
  /\ alert_ids \in [Ids -> Alerts \cup {None}]
  /\ DOMAIN calls \subseteq 1..MaxCalls
  /\ \A t \in DOMAIN calls : calls[t] \in CallType
  /\ shown \in [Alerts -> Ids \cup {None}]

-----------------------------------------------------------------------------
(* PalmServiceBase.                                                        *)

\* StopService takes a handle that was unregistered for one that was not, and
\* keeps it.
StopService(handle) == IF handle = "none" THEN handle ELSE "unregistered"

\* StartService registers the service and its category, and attaches it to the
\* main loop: the calls to the bus up to the first that fails.
StartService(failing) ==
  CASE failing = "LSRegister" -> "none"
    [] failing \in {"LSRegisterCategory", "LSCategorySetData", "LSGmainAttach"}
         -> StopService("registered")
    [] OTHER -> "registered"

Failures ==
  {"LSRegister", "LSRegisterCategory", "LSCategorySetData", "LSGmainAttach", "none"}

\* A call needs the service on the bus, and may fail then too.
CanCall == service_handle_ = "registered"

\* LSCalloutContext::Cancel: the answer to the last call is not wanted. What the
\* service does with the call is not changed.
Cancel(all, context) ==
  IF token_[context] = 0 THEN all
  ELSE [all EXCEPT ![token_[context]].cancelled = TRUE]

-----------------------------------------------------------------------------
(* The notifications of the pages.                                         *)

Init ==
  /\ \E failing \in Failures : service_handle_ = StartService(failing)
  /\ alert_contexts = [n \in Ids |-> 0]
  /\ token_ = [c \in 1..MaxCalls |-> 0]
  /\ alert_ids = [n \in Ids |-> None]
  /\ calls = << >>
  /\ shown = [a \in Alerts |-> None]

\* Nothing calls CreateToast: no notification has an entry in toast_ids.
HasToast(n) == FALSE

\* Close closes the toast and, if it could, the alert.
Closes(n, called) == HasToast(n) /\ called /\ alert_ids[n] # None

\* closeAlert, without a callback: the service takes the alert away.
CloseAlert(n) ==
  /\ alert_ids' = [alert_ids EXCEPT ![n] = None]
  /\ shown' = [shown EXCEPT ![alert_ids[n]] = None]

Close(n, called) ==
  /\ called => CanCall
  /\ IF Closes(n, called) THEN CloseAlert(n) ELSE UNCHANGED <<alert_ids, shown>>
  /\ UNCHANGED <<service_handle_, alert_contexts, token_, calls>>

\* CreateAlert: emplace keeps the context of a call that has not been answered,
\* and the call overwrites its token.
CreateAlert(n, called) ==
  LET t       == Cardinality(DOMAIN calls) + 1
      context == IF alert_contexts[n] = 0 THEN t ELSE alert_contexts[n]
  IN  /\ t <= MaxCalls
      /\ alert_contexts' = [alert_contexts EXCEPT ![n] = context]
      /\ token_' = [token_ EXCEPT ![context] = IF called THEN t ELSE @]
      /\ calls' = [u \in 1..t |->
                     IF u < t THEN calls[u]
                     ELSE [id |-> n, context |-> context, alert |-> None,
                           cancelled |-> FALSE,
                           state |-> IF called THEN "sent" ELSE "ended"]]

Display(n, called) ==
  /\ called => CanCall
  /\ IF Closes(n, called) THEN CloseAlert(n) ELSE UNCHANGED <<alert_ids, shown>>
  /\ CreateAlert(n, called)
  /\ UNCHANGED service_handle_

-----------------------------------------------------------------------------
(* The notification service.                                               *)

Shows(t, a) ==
  /\ calls[t].state = "sent"
  /\ \A u \in DOMAIN calls : calls[u].alert # a
  /\ calls' = [calls EXCEPT ![t].state = "answered", ![t].alert = a]
  /\ shown' = [shown EXCEPT ![a] = calls[t].id]
  /\ UNCHANGED <<service_handle_, alert_contexts, token_, alert_ids>>

Refuses(t) ==
  /\ calls[t].state = "sent"
  /\ calls' = [calls EXCEPT ![t].state = "answered"]
  /\ UNCHANGED <<service_handle_, alert_contexts, token_, alert_ids, shown>>

\* The user closes an alert.
Dismisses(a) ==
  /\ shown[a] # None
  /\ shown' = [shown EXCEPT ![a] = None]
  /\ UNCHANGED <<service_handle_, alert_contexts, token_, alert_ids, calls>>

\* An answer arrives at Callback, whose context is erased. One that arrives at a
\* context erased before is not modelled.
Answered(t) ==
  LET n == calls[t].id
  IN  /\ calls[t].state = "answered"
      /\ ~calls[t].cancelled
      /\ alert_contexts[n] = calls[t].context
      /\ alert_ids' = [alert_ids EXCEPT ![n] = IF calls[t].alert = None THEN @
                                               ELSE calls[t].alert]
      /\ alert_contexts' = [alert_contexts EXCEPT ![n] = 0]
      /\ calls' = Cancel([calls EXCEPT ![t].state = "ended"], calls[t].context)
      /\ UNCHANGED <<service_handle_, token_, shown>>

Next ==
  \/ \E n \in Ids, called \in BOOLEAN : Display(n, called) \/ Close(n, called)
  \/ \E t \in DOMAIN calls :
       Answered(t) \/ Refuses(t) \/ \E a \in Alerts : Shows(t, a)
  \/ \E a \in Alerts : Dismisses(a)

Spec == Init /\ [][Next]_vars

-----------------------------------------------------------------------------
(* What the source says of it.                                             *)

\* Display says "Close the previous notification with the same tag, if
\* possible.": it is possible when its alert is known and the bus takes calls.
DisplayClosesPrevious ==
  [][\A n \in Ids :
       Display(n, TRUE) /\ alert_ids[n] # None => shown'[alert_ids[n]] = None]_vars

=============================================================================
