--------------------------- MODULE MCLunaService ----------------------------
(***************************************************************************)
(* Two scenarios, told apart by the app id that is launched. Every method  *)
(* on two app objects: instances are launched while an older app of theirs *)
(* is closing, killed, paused and relaunched on the load error page, kept  *)
(* alive or not, while a client subscribes. And one instance of the app    *)
(* Relaunched: preloaded or not, it is paused, fails and crashes, and is   *)
(* relaunched with an event, a navigation or arguments that are ignored.   *)
(***************************************************************************)
EXTENDS LunaService, TLC

CONSTANT Relaunched

LunaPlain ==
  [keep_alive |-> FALSE, hidden |-> FALSE, preload |-> "none",
   background_run |-> FALSE, handles_relaunch |-> TRUE,
   use_prerendering |-> FALSE, window_type |-> "card"]

RelaunchPlain == [LunaPlain EXCEPT !.handles_relaunch = FALSE]

RelaunchArgs ==
  {RelaunchPlain,
   [RelaunchPlain EXCEPT !.hidden = TRUE],
   [LunaPlain EXCEPT !.keep_alive = TRUE, !.preload = "full"]}

LunaArgs ==
  RelaunchArgs \cup {[LunaPlain EXCEPT !.keep_alive = keep] : keep \in BOOLEAN}

\* A relaunch with it is ignored: the other scenario has the ones that are not.
Request(id, i, args) ==
  [app_id |-> id, instance_id |-> i, optional_ok |-> TRUE, args |-> args,
   other_preload |-> TRUE, opens_window |-> FALSE, served |-> TRUE,
   updated |-> FALSE]

Kept == CHOOSE i \in Instances : TRUE

\* Good requests, one instance kept alive, and one that fails each check.
Launches ==
  LET good == {Request(id, i, [LunaPlain EXCEPT !.keep_alive = (i = Kept)]) :
                 id \in AppIds \ {Relaunched}, i \in Instances}
      some == CHOOSE r \in good : TRUE
  IN  good \cup {[some EXCEPT !.app_id = Bad], [some EXCEPT !.instance_id = Bad],
                 [some EXCEPT !.optional_ok = FALSE],
                 [some EXCEPT !.served = FALSE]}

Relaunches ==
  {[Request(Relaunched, Kept, args) EXCEPT !.other_preload = FALSE,
                                           !.opens_window = opens] :
     args \in RelaunchArgs, opens \in BOOLEAN}

Requests == Launches \cup Relaunches

Arrays == UNION {[1..n -> {"cookies", "cache", "unknown", Bad}] : n \in 0..2}

Clears ==
  {[types |-> "absent", array |-> <<>>], [types |-> "other", array |-> <<>>]}
    \cup {[types |-> "array", array |-> array] : array \in Arrays}

Symmetry == Permutations(Apps)

ClosingEvents ==
  \/ \E app_id \in AppIds, i \in Instances :
       /\ \E x \in app_list_ : Finds(x, i) /\ apps[x].hidden_window
       /\ GetCloseAppIdCallback(app_id, i)
  \/ \E x \in Apps :
       \/ NavigationStarts(x, apps[x].page.request)
       \/ PageLoadFinished(x)
       \/ LoadFailed(x, FALSE, TRUE)
       \/ RenderProcessCreated(x)

\* The calls that reach no app, and those that are refused for their parameters,
\* are made before one is launched.
ClosingNext ==
  /\ Relaunched \notin app_version_
  /\ \/ /\ AppCallNext
        /\ reply'.app_id # Relaunched
        /\ reply'.errorCode \in {"MissParam", "InvalidParam"} => app_version_ = {}
     \/ app_version_ = {} /\ OtherCallNext
     \/ Event(ClosingEvents)

\* The app is in the background or not, its page shown or not, running,
\* crashed or failed.
RelaunchEvents ==
  \E x \in Apps :
    \/ WindowStateAboutToChange(x)
    \/ \E new_state \in {"fullscreen", "minimized"} :
         WindowStateChange(x, new_state)
    \/ \E url \in {"app", "error"} : NavigationStarts(x, url)
    \/ PageLoadFinished(x)
    \/ LoadFailed(x, FALSE, TRUE)
    \/ LoadVisuallyCommitted(x)
    \/ DidSwapCompositorFrame(x)
    \/ RenderProcessCrashed(x)
    \/ TimerNext(x)

\* A preloaded app that fails to load is closed; it is not launched again.
RelaunchNext ==
  /\ app_version_ \subseteq {Relaunched} /\ DOMAIN told = {}
  /\ \A x \in Apps : apps[x].status # "freed" /\ ~apps[x].page.is_closing
  /\ \/ \E r \in Relaunches : launchApp(r)
     \/ pauseApp(Kept)
     \/ Event(RelaunchEvents)

MCNext == (ClosingNext \/ RelaunchNext) /\ WithinBounds'

MCSpec == LunaInit /\ [][MCNext]_lunaVars

=============================================================================
