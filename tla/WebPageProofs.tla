--------------------------- MODULE WebPageProofs ---------------------------
(***************************************************************************)
(* What the methods of a page leave alone: their results are pages, and    *)
(* none of them but CleanResources and ExecuteCloseCallback begins to      *)
(* close it. What they keep true: the page and the engine agree on what is *)
(* suspended, and only SuspendWebPageAll suspends.                         *)
(***************************************************************************)
EXTENDS WebPage, TLAPS

\* q is a page that is no further on its way to its end than p.
SameClosing(p, q) ==
  /\ q \in WebPageType
  /\ q.is_closing = p.is_closing
  /\ q.cleaning_resources = p.cleaning_resources
  /\ q.close_callback_timer = p.close_callback_timer
  /\ q.script_pending => p.script_pending

LEMMA SameClosingReflexive ==
  ASSUME NEW p \in WebPageType
  PROVE  SameClosing(p, p)
  BY DEF SameClosing

LEMMA SameClosingTransitive ==
  ASSUME NEW p, NEW q, NEW r, SameClosing(p, q), SameClosing(q, r)
  PROVE  SameClosing(p, r)
  BY DEF SameClosing

\* A timer stays a timer.
LEMMA TimerTypes ==
  ASSUME NEW t \in TimerType
  PROVE  /\ NewTimer \in TimerType
         /\ Start(t) \in TimerType
         /\ Stop(t) \in TimerType
         /\ StopIfRunning(t) \in TimerType
         /\ CanFire(t) => Fired(t) \in TimerType
<1>1. NewTimer \in TimerType
  BY DEF NewTimer, TimerType
<1>2. Start(t) \in TimerType
  <2>1. (IF t.armed THEN t.leaked + 1 ELSE t.leaked) \in Nat
    BY DEF TimerType
  <2>2. QED
    BY <2>1 DEF Start, TimerType
<1>3. Stop(t) \in TimerType
  BY Zenon DEF Stop, TimerType
<1>4. StopIfRunning(t) \in TimerType
  BY <1>3 DEF StopIfRunning
<1>5. Fired(t) \in TimerType
  <2>1. CASE t.leaked > 0
    <3>1. t.leaked - 1 \in Nat
      BY <2>1 DEF TimerType
    <3>2. [t EXCEPT !.is_running = FALSE, !.leaked = t.leaked - 1] \in TimerType
      BY <3>1, Zenon DEF TimerType
    <3>3. QED
      BY <2>1, <3>2 DEF Fired
  <2>2. CASE ~(t.leaked > 0)
    <3>1. [t EXCEPT !.is_running = FALSE, !.armed = FALSE] \in TimerType
      BY Zenon DEF TimerType
    <3>2. QED
      BY <2>2, <3>1 DEF Fired
  <2>3. QED
    BY <2>1, <2>2
<1>6. QED
  BY <1>1, <1>2, <1>3, <1>4, <1>5

\* A new page is a page that is not closing.
LEMMA NewPageType ==
  ASSUME NEW b \in BOOLEAN
  PROVE  /\ NewPage(b) \in WebPageType
         /\ ~NewPage(b).is_closing
         /\ ~NewPage(b).cleaning_resources
         /\ ~NewPage(b).script_pending
         /\ NewPage(b).close_callback_timer = NewTimer
<1>1. NewTimer \in TimerType
  BY DEF NewTimer, TimerType
<1>2. NewPage(b) \in WebPageType
  BY <1>1 DEF NewPage, WebPageType, MaybeUrl, Urls, Visibilities
<1>3. QED
  BY <1>2 DEF NewPage

\* Media and painting are suspended and resumed without closing anything.
LEMMA SuspendMedia ==
  ASSUME NEW p \in WebPageType
  PROVE  SameClosing(p, SuspendWebPageMedia(p))
<1> DEFINE q == [p EXCEPT !.media_suspended = TRUE, !.is_paused = TRUE]
<1>1. q \in WebPageType
  BY Zenon DEF WebPageType
<1>2. SameClosing(p, q)
  BY <1>1 DEF SameClosing, WebPageType
<1>3. QED
  BY <1>2 DEF SameClosing, SuspendWebPageMedia

LEMMA ResumeMedia ==
  ASSUME NEW p \in WebPageType
  PROVE  SameClosing(p, ResumeWebPageMedia(p))
<1> DEFINE q == [p EXCEPT !.media_suspended = FALSE, !.is_paused = FALSE]
<1>1. q \in WebPageType
  BY Zenon DEF WebPageType
<1>2. SameClosing(p, q)
  BY <1>1 DEF SameClosing, WebPageType
<1>3. QED
  BY <1>2 DEF SameClosing, ResumeWebPageMedia

\* Suspending starts, at most, dom_suspend_timer_.
LEMMA SuspendAll ==
  ASSUME NEW p \in WebPageType
  PROVE  SameClosing(p, SuspendWebPageAll(p))
<1> DEFINE q == SuspendWebPageMedia(p)
           r == [q EXCEPT !.is_suspended = TRUE, !.dom_suspend_timer = Start(@)]
<1>1. SameClosing(p, p) /\ SameClosing(p, q)
  BY SuspendMedia, SameClosingReflexive
<1>2. q \in WebPageType
  BY <1>1 DEF SameClosing
<1> HIDE DEF q
<1>3. Start(q.dom_suspend_timer) \in TimerType
  BY <1>2, TimerTypes DEF WebPageType
<1>4. r \in WebPageType
  BY <1>2, <1>3, Zenon DEF WebPageType
<1>5. SameClosing(q, r)
  BY <1>2, <1>4 DEF SameClosing, WebPageType
<1>6. SameClosing(p, r)
  BY <1>1, <1>5, SameClosingTransitive
<1>7. QED
  BY <1>1, <1>6 DEF SuspendWebPageAll, q

LEMMA SuspendPainting ==
  ASSUME NEW p \in WebPageType
  PROVE  SameClosing(p, SuspendWebPagePaintingAndJSExecution(p))
<1> DEFINE q == [p EXCEPT !.dom_suspend_timer = StopIfRunning(@)]
           r == [q EXCEPT !.suspend_at_load = TRUE]
           s == [q EXCEPT !.dom_suspended = TRUE]
<1>1. StopIfRunning(p.dom_suspend_timer) \in TimerType
  BY TimerTypes DEF WebPageType
<1>2. q \in WebPageType
  BY <1>1, Zenon DEF WebPageType
<1>3. SameClosing(p, q)
  BY <1>2 DEF SameClosing, WebPageType
<1> HIDE DEF q
<1>4. r \in WebPageType /\ s \in WebPageType
  BY <1>2, Zenon DEF WebPageType
<1>5. SameClosing(q, r) /\ SameClosing(q, s)
  BY <1>2, <1>4 DEF SameClosing, WebPageType
<1>6. SameClosing(p, r) /\ SameClosing(p, s)
  BY <1>3, <1>5, SameClosingTransitive
<1>7. QED
  BY <1>3, <1>6 DEF SuspendWebPagePaintingAndJSExecution, q

LEMMA ResumePainting ==
  ASSUME NEW p \in WebPageType
  PROVE  SameClosing(p, ResumeWebPagePaintingAndJSExecution(p))
<1> DEFINE q == [p EXCEPT !.suspend_at_load = FALSE]
           r == [q EXCEPT !.dom_suspend_timer = Stop(@), !.is_suspended = FALSE]
           s == [q EXCEPT !.dom_suspended = FALSE, !.is_suspended = FALSE]
<1>1. q \in WebPageType
  BY Zenon DEF WebPageType
<1>2. SameClosing(p, q)
  BY <1>1 DEF SameClosing, WebPageType
<1> HIDE DEF q
<1>3. Stop(q.dom_suspend_timer) \in TimerType
  BY <1>1, TimerTypes DEF WebPageType
<1>4. r \in WebPageType /\ s \in WebPageType
  BY <1>1, <1>3, Zenon DEF WebPageType
<1>5. SameClosing(q, r) /\ SameClosing(q, s)
  BY <1>1, <1>4 DEF SameClosing, WebPageType
<1>6. SameClosing(p, r) /\ SameClosing(p, s)
  BY <1>2, <1>5, SameClosingTransitive
<1>7. QED
  BY <1>2, <1>6 DEF ResumeWebPagePaintingAndJSExecution, q

LEMMA ResumeAll ==
  ASSUME NEW p \in WebPageType
  PROVE  SameClosing(p, ResumeWebPageAll(p))
<1> DEFINE q == ResumeWebPagePaintingAndJSExecution(p)
<1>1. SameClosing(p, q)
  BY ResumePainting
<1>2. SameClosing(q, ResumeWebPageMedia(q))
  BY <1>1, ResumeMedia DEF SameClosing
<1>3. QED
  BY <1>1, <1>2, SameClosingTransitive DEF ResumeWebPageAll

LEMMA DomSuspendFired ==
  ASSUME NEW p \in WebPageType, CanFire(p.dom_suspend_timer)
  PROVE  SameClosing(p, DomSuspendTimerFired(p))
<1> DEFINE q == [p EXCEPT !.dom_suspend_timer = Fired(@)]
<1>1. Fired(p.dom_suspend_timer) \in TimerType
  BY TimerTypes DEF WebPageType
<1>2. q \in WebPageType
  BY <1>1, Zenon DEF WebPageType
<1>3. SameClosing(p, q)
  BY <1>2 DEF SameClosing, WebPageType
<1> HIDE DEF q
<1>4. SameClosing(q, SuspendWebPagePaintingAndJSExecution(q))
  BY <1>2, SuspendPainting
<1>5. QED
  BY <1>3, <1>4, SameClosingTransitive DEF DomSuspendTimerFired, q

-----------------------------------------------------------------------------
(* Loading.                                                                *)

LEMMA Load ==
  ASSUME NEW p \in WebPageType, NEW url \in MaybeUrl
  PROVE  SameClosing(p, LoadUrl(p, url))
<1>1. LoadUrl(p, url) \in WebPageType
  BY Zenon DEF WebPageType, LoadUrl
<1>2. QED
  BY <1>1 DEF SameClosing, WebPageType, LoadUrl

LEMMA ErrorPage ==
  ASSUME NEW p \in WebPageType, NEW shown \in BOOLEAN
  PROVE  SameClosing(p, LoadErrorPage(p, shown))
  BY Load, SameClosingReflexive DEF LoadErrorPage, MaybeUrl, Urls

LEMMA LoadStarted ==
  ASSUME NEW p \in WebPageType
  PROVE  SameClosing(p, HandleLoadStarted(p))
<1>1. HandleLoadStarted(p) \in WebPageType
  BY Zenon DEF WebPageType, HandleLoadStarted
<1>2. QED
  BY <1>1 DEF SameClosing, WebPageType, HandleLoadStarted

LEMMA StartNavigation ==
  ASSUME NEW p \in WebPageType, NEW url \in Urls
  PROVE  SameClosing(p, DidStartNavigation(p, url))
<1> DEFINE q == HandleLoadStarted(p)
           r == [q EXCEPT !.loading = url, !.request = "none",
                          !.progress = FALSE, !.script_pending = FALSE]
<1>1. SameClosing(p, q)
  BY LoadStarted
<1>2. q \in WebPageType
  BY <1>1 DEF SameClosing
<1> HIDE DEF q
<1>3. url \in MaybeUrl /\ "none" \in MaybeUrl
  BY DEF MaybeUrl
<1>4. r \in WebPageType
  BY <1>2, <1>3, Zenon DEF WebPageType
<1>5. SameClosing(q, r)
  BY <1>2, <1>4 DEF SameClosing, WebPageType
<1>6. QED
  BY <1>1, <1>5, SameClosingTransitive DEF DidStartNavigation, q

LEMMA UpdateErrorPage ==
  ASSUME NEW p \in WebPageType
  PROVE  SameClosing(p, UpdateIsLoadErrorPageFinish(p))
<1> DEFINE b == p.url = "error"
           t == IF b THEN TRUE
                ELSE p.net_error_reload_timer /\ ~p.is_load_error_page_finish
           q == [p EXCEPT !.is_load_error_page_finish = b,
                          !.net_error_reload_timer = t]
<1>1. UpdateIsLoadErrorPageFinish(p) = q
  BY DEF UpdateIsLoadErrorPageFinish
<1>2. b \in BOOLEAN /\ t \in BOOLEAN
  BY DEF WebPageType
<1> HIDE DEF b, t
<1>3. q \in WebPageType
  BY <1>2, Zenon DEF WebPageType
<1>4. SameClosing(p, q)
  BY <1>3 DEF SameClosing, WebPageType
<1>5. QED
  BY <1>1, <1>4

LEMMA SuspendAtLoadSame ==
  ASSUME NEW p \in WebPageType
  PROVE  SameClosing(p, SuspendAtLoad(p))
<1> DEFINE q == IF p.suspend_at_load THEN SuspendWebPagePaintingAndJSExecution(p)
                                     ELSE p
<1>1. SameClosing(p, q)
  BY SuspendPainting, SameClosingReflexive
<1>2. SameClosing(q, UpdateIsLoadErrorPageFinish(q))
  BY <1>1, UpdateErrorPage DEF SameClosing
<1> HIDE DEF q
<1>3. QED
  BY <1>1, <1>2, SameClosingTransitive DEF SuspendAtLoad, q

LEMMA CommittedSame ==
  ASSUME NEW p \in WebPageType
  PROVE  SameClosing(p, Committed(p))
<1>1. p.loading \in MaybeUrl /\ "none" \in MaybeUrl
  BY DEF WebPageType, MaybeUrl
<1>2. Committed(p) \in WebPageType
  BY <1>1, Zenon DEF WebPageType, Committed
<1>3. QED
  BY <1>2 DEF SameClosing, WebPageType, Committed

-----------------------------------------------------------------------------
(* Crashing and closing.                                                   *)

LEMMA Recreate ==
  ASSUME NEW p \in WebPageType
  PROVE  SameClosing(p, RecreateWebView(p))
<1> DEFINE q == NewView(p)
           v == IF p.is_suspended THEN "visible" ELSE "launching"
           r == [q EXCEPT !.is_suspended = FALSE, !.visibility = v]
<1>1. "none" \in MaybeUrl /\ v \in Visibilities
  BY DEF MaybeUrl, Visibilities
<1>2. q \in WebPageType
  BY <1>1, Zenon DEF WebPageType, NewView
<1>3. SameClosing(p, q)
  BY <1>2 DEF SameClosing, WebPageType, NewView
<1>4. RecreateWebView(p) = r
  BY DEF RecreateWebView
<1> HIDE DEF q, v
<1>5. r \in WebPageType
  BY <1>1, <1>2, Zenon DEF WebPageType
<1>6. SameClosing(q, r)
  BY <1>2, <1>5 DEF SameClosing, WebPageType
<1>7. QED
  BY <1>3, <1>4, <1>6, SameClosingTransitive

\* The two ways a closing page goes on; neither forgets that it is closing.
LEMMA CleanResourcesType ==
  ASSUME NEW p \in WebPageType
  PROVE  /\ CleanResources(p) \in WebPageType
         /\ CleanResources(p).is_closing = p.is_closing
<1>1. "blank" \in MaybeUrl /\ "none" \in MaybeUrl
  BY DEF MaybeUrl, Urls
<1>2. LoadUrl(p, "blank") \in WebPageType
  BY <1>1, Load DEF SameClosing
<1>3. CleanResources(p) \in WebPageType
  BY <1>1, <1>2, Zenon DEF WebPageType, CleanResources
<1>4. QED
  BY <1>2, <1>3 DEF WebPageType, CleanResources, LoadUrl

LEMMA ExecuteCloseCallbackType ==
  ASSUME NEW p \in WebPageType
  PROVE  /\ ExecuteCloseCallback(p) \in WebPageType
         /\ ExecuteCloseCallback(p).is_closing = p.is_closing
<1>1. Start(p.close_callback_timer) \in TimerType
  BY TimerTypes DEF WebPageType
<1>2. ExecuteCloseCallback(p) \in WebPageType
  BY <1>1, Zenon DEF WebPageType, ExecuteCloseCallback
<1>3. QED
  BY <1>2 DEF WebPageType, ExecuteCloseCallback

LEMMA DestroyedType ==
  ASSUME NEW p \in WebPageType
  PROVE  Destroyed(p) \in WebPageType
<1>1. /\ StopIfRunning(p.dom_suspend_timer) \in TimerType
      /\ StopIfRunning(p.close_callback_timer) \in TimerType
  BY TimerTypes DEF WebPageType
<1>2. NewPage(FALSE) \in WebPageType
  BY NewPageType
<1>3. QED
  BY <1>1, <1>2, Zenon DEF WebPageType, Destroyed

-----------------------------------------------------------------------------
(* What a page knows of its suspension.                                    *)

\* The engine's DOM is stopped only while the page counts as suspended, with
\* no timer left that would make a resume believe it still runs.
DomKnown(p) ==
  p.dom_suspended => p.is_suspended /\ ~p.dom_suspend_timer.is_running

\* A suspension that has not stopped the DOM is still due.
SuspensionDue(p) ==
  p.is_suspended =>
    p.dom_suspended \/ p.suspend_at_load \/ p.dom_suspend_timer.is_running

\* A page that may run in the background is never suspended. Without this
\* SuspensionDue is not inductive: the timer of such a page stops nothing.
ForegroundOnly(p) == p.is_suspended => ~p.enable_background_run

\* Media the engine has stopped are known to be stopped.
MediaKnown(p) == p.media_suspended => p.is_paused

\* A page that is visible runs.
VisibleRuns(p) ==
  p.visibility = "visible" => ~p.is_suspended /\ ~p.media_suspended

ReloadTimerAgrees(p) == p.net_error_reload_timer <=> p.is_load_error_page_finish

Coherent(p) ==
  /\ DomKnown(p)
  /\ SuspensionDue(p)
  /\ ForegroundOnly(p)
  /\ MediaKnown(p)
  /\ VisibleRuns(p)
  /\ ReloadTimerAgrees(p)

\* q is the page p, no more suspended than p and not brought into sight.
NoMoreSuspended(p, q) ==
  /\ Coherent(p) => Coherent(q)
  /\ q.is_suspended => p.is_suspended
  /\ q.is_preload = p.is_preload
  /\ q.visibility = "visible" => p.visibility = "visible"

LEMMA NoMoreSuspendedReflexive ==
  ASSUME NEW p
  PROVE  NoMoreSuspended(p, p)
  BY DEF NoMoreSuspended

LEMMA NoMoreSuspendedTransitive ==
  ASSUME NEW p, NEW q, NEW r, NoMoreSuspended(p, q), NoMoreSuspended(q, r)
  PROVE  NoMoreSuspended(p, r)
  BY DEF NoMoreSuspended

\* What a method may change without touching what a page knows of itself.
SameKnowledge(p, q) ==
  /\ q.is_suspended = p.is_suspended
  /\ q.dom_suspended = p.dom_suspended
  /\ q.dom_suspend_timer = p.dom_suspend_timer
  /\ p.suspend_at_load => q.suspend_at_load
  /\ q.enable_background_run = p.enable_background_run
  /\ q.is_paused = p.is_paused
  /\ q.media_suspended = p.media_suspended
  /\ q.net_error_reload_timer = p.net_error_reload_timer
  /\ q.is_load_error_page_finish = p.is_load_error_page_finish
  /\ q.is_preload = p.is_preload
  /\ q.visibility = p.visibility

LEMMA SameKnowledgeSuspends ==
  ASSUME NEW p, NEW q, SameKnowledge(p, q)
  PROVE  NoMoreSuspended(p, q)
  BY DEF SameKnowledge, NoMoreSuspended, Coherent, DomKnown,
         SuspensionDue, ForegroundOnly, MediaKnown, VisibleRuns, ReloadTimerAgrees

\* Nothing is suspended in a new page.
LEMMA NewPageCoherent ==
  ASSUME NEW b \in BOOLEAN
  PROVE  /\ Coherent(NewPage(b))
         /\ ~NewPage(b).is_suspended
  BY DEF NewPage, Coherent, DomKnown, SuspensionDue, ForegroundOnly,
         MediaKnown, VisibleRuns, ReloadTimerAgrees

\* Media are suspended in a page that is out of sight, or leaves it in the same
\* call.
LEMMA SuspendMediaKnown ==
  ASSUME NEW p \in WebPageType
  PROVE  /\ p.visibility # "visible" => NoMoreSuspended(p, SuspendWebPageMedia(p))
         /\ NoMoreSuspended(p, [SuspendWebPageMedia(p) EXCEPT !.visibility = "hidden"])
         /\ SuspendWebPageMedia(p).visibility = p.visibility
         /\ SuspendWebPageMedia(p).is_suspended = p.is_suspended
         /\ SuspendWebPageMedia(p).enable_background_run = p.enable_background_run
         /\ ~p.enable_background_run => SuspendWebPageMedia(p).is_paused
  BY DEF WebPageType, SuspendWebPageMedia, NoMoreSuspended, Coherent,
         DomKnown, SuspensionDue, ForegroundOnly, MediaKnown,
         VisibleRuns, ReloadTimerAgrees

\* The media of a page may be resumed on their own only if the page is not
\* suspended.
LEMMA ResumeMediaKnown ==
  ASSUME NEW p \in WebPageType
  PROVE  /\ Coherent(p) => /\ Coherent(ResumeWebPageMedia(p))
                           /\ ~ResumeWebPageMedia(p).media_suspended
         /\ ResumeWebPageMedia(p).visibility = p.visibility
         /\ ResumeWebPageMedia(p).is_suspended = p.is_suspended
         /\ ResumeWebPageMedia(p).is_preload = p.is_preload
  BY DEF WebPageType, ResumeWebPageMedia, Coherent, DomKnown, SuspensionDue,
         ForegroundOnly, MediaKnown, VisibleRuns, ReloadTimerAgrees

\* The one method that suspends: it starts the timer that makes the suspension
\* due, and the media are paused.
LEMMA SuspendAllKnown ==
  ASSUME NEW p \in WebPageType, Coherent(p),
         p.visibility # "visible"
  PROVE  /\ Coherent(SuspendWebPageAll(p))
         /\ SuspendWebPageAll(p).visibility = p.visibility
         /\ SuspendWebPageAll(p).is_preload = p.is_preload
<1> DEFINE q == SuspendWebPageMedia(p)
           r == [q EXCEPT !.is_suspended = TRUE, !.dom_suspend_timer = Start(@)]
<1>1. CASE p.is_suspended \/ p.enable_background_run
  BY <1>1 DEF SuspendWebPageAll
<1>2. CASE ~(p.is_suspended \/ p.enable_background_run)
  <2>1. SuspendWebPageAll(p) = IF q.is_closing THEN q ELSE r
    BY <1>2 DEF SuspendWebPageAll
  <2>2. /\ q \in WebPageType /\ Coherent(q)
        /\ q.is_preload = p.is_preload /\ q.visibility = p.visibility
        /\ ~q.is_suspended /\ ~q.enable_background_run /\ q.is_paused
    BY <1>2, SuspendMedia, SuspendMediaKnown DEF SameClosing, NoMoreSuspended
  <2> HIDE DEF q
  <2>3. ~q.dom_suspended
    BY <2>2 DEF Coherent, DomKnown
  <2>4. Start(q.dom_suspend_timer).is_running
    BY DEF Start
  <2>5. /\ Coherent(r)
        /\ r.is_preload = q.is_preload /\ r.visibility = q.visibility
    BY <2>2, <2>3, <2>4
       DEF WebPageType, Coherent, DomKnown, SuspensionDue,
           ForegroundOnly, MediaKnown, VisibleRuns, ReloadTimerAgrees
  <2>6. QED
    BY <2>1, <2>2, <2>5
<1>3. QED
  BY <1>1, <1>2

\* Whether or not its timer still runs, a suspended page is stopped now or at
\* the end of its load.
LEMMA SuspendPaintingKnown ==
  ASSUME NEW p \in WebPageType
  PROVE  /\ NoMoreSuspended(p, SuspendWebPagePaintingAndJSExecution(p))
         /\ (/\ p.dom_suspended => p.is_suspended
             /\ ForegroundOnly(p) /\ MediaKnown(p) /\ VisibleRuns(p)
             /\ ReloadTimerAgrees(p))
            => Coherent(SuspendWebPagePaintingAndJSExecution(p))
         /\ SuspendWebPagePaintingAndJSExecution(p).is_suspended = p.is_suspended
<1> DEFINE t == StopIfRunning(p.dom_suspend_timer)
           q == [p EXCEPT !.dom_suspend_timer = t]
           r == SuspendWebPagePaintingAndJSExecution(p)
<1>1. t \in TimerType /\ ~t.is_running
  BY TimerTypes DEF WebPageType, StopIfRunning, Stop, TimerType
<1>2. r = IF q.enable_background_run \/ ~q.is_suspended THEN q
          ELSE IF ~q.has_been_shown /\ ~q.progress
                 THEN [q EXCEPT !.suspend_at_load = TRUE]
                 ELSE [q EXCEPT !.dom_suspended = TRUE]
  BY DEF SuspendWebPagePaintingAndJSExecution
<1> HIDE DEF t, r
<1>3. /\ r.is_suspended = p.is_suspended
      /\ r.is_paused = p.is_paused
      /\ r.media_suspended = p.media_suspended
      /\ r.net_error_reload_timer = p.net_error_reload_timer
      /\ r.is_load_error_page_finish = p.is_load_error_page_finish
      /\ r.enable_background_run = p.enable_background_run
      /\ r.is_preload = p.is_preload
      /\ r.visibility = p.visibility
      /\ r.dom_suspend_timer = t
      /\ r.dom_suspended => p.dom_suspended \/ p.is_suspended
      /\ p.is_suspended /\ ~p.enable_background_run
           => r.suspend_at_load \/ r.dom_suspended
  BY <1>2 DEF WebPageType
<1>4. QED
  BY <1>1, <1>3 DEF r, NoMoreSuspended, Coherent, DomKnown,
     SuspensionDue, ForegroundOnly, MediaKnown, VisibleRuns, ReloadTimerAgrees

\* ResumeWebPagePaintingAndJSExecution always resumes: DomKnown makes it take the
\* branch that tells the view whenever the DOM is stopped.
LEMMA ResumePaintingKnown ==
  ASSUME NEW p \in WebPageType
  PROVE  /\ NoMoreSuspended(p, ResumeWebPagePaintingAndJSExecution(p))
         /\ ~ResumeWebPagePaintingAndJSExecution(p).is_suspended
         /\ ResumeWebPagePaintingAndJSExecution(p).visibility = p.visibility
<1> DEFINE q == [p EXCEPT !.suspend_at_load = FALSE]
           r == ResumeWebPagePaintingAndJSExecution(p)
<1>1. r = IF ~q.is_suspended THEN q
          ELSE IF q.dom_suspend_timer.is_running
                 THEN [q EXCEPT !.dom_suspend_timer = Stop(@), !.is_suspended = FALSE]
                 ELSE [q EXCEPT !.dom_suspended = FALSE, !.is_suspended = FALSE]
  BY DEF ResumeWebPagePaintingAndJSExecution
<1> HIDE DEF r
<1>2. /\ ~r.is_suspended
      /\ r.is_paused = p.is_paused
      /\ r.media_suspended = p.media_suspended
      /\ r.net_error_reload_timer = p.net_error_reload_timer
      /\ r.is_load_error_page_finish = p.is_load_error_page_finish
      /\ r.is_preload = p.is_preload
      /\ r.visibility = p.visibility
      /\ r.dom_suspended => /\ p.dom_suspended
                            /\ p.is_suspended => p.dom_suspend_timer.is_running
  BY <1>1 DEF WebPageType
<1>3. QED
  BY <1>2 DEF r, NoMoreSuspended, Coherent, DomKnown,
     SuspensionDue, ForegroundOnly, MediaKnown, VisibleRuns, ReloadTimerAgrees

LEMMA ResumeAllKnown ==
  ASSUME NEW p \in WebPageType
  PROVE  /\ Coherent(p) => /\ Coherent(ResumeWebPageAll(p))
                           /\ ~ResumeWebPageAll(p).media_suspended
         /\ ResumeWebPageAll(p).visibility = p.visibility
         /\ ~ResumeWebPageAll(p).is_suspended
         /\ ResumeWebPageAll(p).is_preload = p.is_preload
<1> DEFINE q == ResumeWebPagePaintingAndJSExecution(p)
<1>1. q \in WebPageType
  BY ResumePainting DEF SameClosing
<1>2. NoMoreSuspended(p, q) /\ ~q.is_suspended /\ q.visibility = p.visibility
  BY ResumePaintingKnown
<1>3. ResumeWebPageAll(p) = ResumeWebPageMedia(q)
  BY DEF ResumeWebPageAll
<1> HIDE DEF q
<1>4. QED
  BY <1>1, <1>2, <1>3, ResumeMediaKnown DEF NoMoreSuspended

\* The timer's callback suspends the page, whichever of its sources fired.
LEMMA DomSuspendFiredKnown ==
  ASSUME NEW p \in WebPageType, CanFire(p.dom_suspend_timer), Coherent(p)
  PROVE  NoMoreSuspended(p, DomSuspendTimerFired(p))
<1> DEFINE t == Fired(p.dom_suspend_timer)
           q == [p EXCEPT !.dom_suspend_timer = t]
           r == SuspendWebPagePaintingAndJSExecution(q)
<1>1. t \in TimerType
  BY TimerTypes DEF WebPageType
<1>2. DomSuspendTimerFired(p) = r
  BY DEF DomSuspendTimerFired
<1> HIDE DEF t
<1>3. q \in WebPageType
  BY <1>1, Zenon DEF WebPageType
<1>4. /\ q.dom_suspended => q.is_suspended
      /\ ForegroundOnly(q) /\ MediaKnown(q) /\ VisibleRuns(q)
      /\ ReloadTimerAgrees(q)
      /\ q.is_suspended = p.is_suspended /\ q.is_paused = p.is_paused
      /\ q.is_preload = p.is_preload /\ q.visibility = p.visibility
  BY DEF WebPageType, Coherent, DomKnown, ForegroundOnly, MediaKnown, VisibleRuns,
         ReloadTimerAgrees
<1> HIDE DEF q
<1>5. /\ Coherent(r) /\ NoMoreSuspended(q, r)
      /\ r.is_suspended = q.is_suspended
  BY <1>3, <1>4, SuspendPaintingKnown
<1>6. QED
  BY <1>2, <1>4, <1>5 DEF NoMoreSuspended

\* Loading suspends nothing by itself.
LEMMA LoadKnown ==
  ASSUME NEW p \in WebPageType, NEW url
  PROVE  SameKnowledge(p, LoadUrl(p, url))
  BY DEF WebPageType, SameKnowledge, LoadUrl

LEMMA ErrorPageKnown ==
  ASSUME NEW p \in WebPageType, NEW shown
  PROVE  SameKnowledge(p, LoadErrorPage(p, shown))
<1>1. SameKnowledge(p, p)
  BY DEF SameKnowledge
<1>2. QED
  BY <1>1, LoadKnown DEF LoadErrorPage

LEMMA LoadStartedKnown ==
  ASSUME NEW p \in WebPageType
  PROVE  SameKnowledge(p, HandleLoadStarted(p))
  BY DEF WebPageType, SameKnowledge, HandleLoadStarted

LEMMA StartNavigationKnown ==
  ASSUME NEW p \in WebPageType, NEW url
  PROVE  SameKnowledge(p, DidStartNavigation(p, url))
<1> DEFINE q == HandleLoadStarted(p)
           r == [q EXCEPT !.loading = url, !.request = "none",
                          !.progress = FALSE, !.script_pending = FALSE]
<1>1. q \in WebPageType /\ SameKnowledge(p, q)
  BY LoadStarted, LoadStartedKnown DEF SameClosing
<1>2. DidStartNavigation(p, url) = r
  BY DEF DidStartNavigation
<1> HIDE DEF q
<1>3. SameKnowledge(q, r)
  BY <1>1 DEF WebPageType, SameKnowledge
<1>4. QED
  BY <1>1, <1>2, <1>3 DEF SameKnowledge

LEMMA CommittedKnown ==
  ASSUME NEW p \in WebPageType
  PROVE  SameKnowledge(p, Committed(p))
  BY DEF WebPageType, SameKnowledge, Committed

\* The reload timer follows the load error page, as long as it did so far.
LEMMA UpdateErrorPageKnown ==
  ASSUME NEW p \in WebPageType
  PROVE  NoMoreSuspended(p, UpdateIsLoadErrorPageFinish(p))
<1> DEFINE q == UpdateIsLoadErrorPageFinish(p)
<1>1. /\ q.is_load_error_page_finish = (p.url = "error")
      /\ q.net_error_reload_timer =
           IF p.url = "error" THEN TRUE
           ELSE p.net_error_reload_timer /\ ~p.is_load_error_page_finish
  BY Zenon DEF UpdateIsLoadErrorPageFinish, WebPageType
<1>2. /\ q.is_suspended = p.is_suspended
      /\ q.dom_suspended = p.dom_suspended
      /\ q.dom_suspend_timer = p.dom_suspend_timer
      /\ q.suspend_at_load = p.suspend_at_load
      /\ q.enable_background_run = p.enable_background_run
      /\ q.is_paused = p.is_paused
      /\ q.media_suspended = p.media_suspended
      /\ q.is_preload = p.is_preload
      /\ q.visibility = p.visibility
  BY DEF UpdateIsLoadErrorPageFinish, WebPageType
<1> HIDE DEF q
<1>3. ReloadTimerAgrees(p) => ReloadTimerAgrees(q)
  BY <1>1 DEF ReloadTimerAgrees
<1>4. QED
  BY <1>2, <1>3 DEF q, NoMoreSuspended, Coherent, DomKnown,
     SuspensionDue, ForegroundOnly, MediaKnown, VisibleRuns

LEMMA SuspendAtLoadKnown ==
  ASSUME NEW p \in WebPageType
  PROVE  NoMoreSuspended(p, SuspendAtLoad(p))
<1> DEFINE q == IF p.suspend_at_load THEN SuspendWebPagePaintingAndJSExecution(p)
                                     ELSE p
<1>1. q \in WebPageType
  BY SuspendPainting DEF SameClosing
<1>2. NoMoreSuspended(p, q)
  BY SuspendPaintingKnown, NoMoreSuspendedReflexive
<1>3. SuspendAtLoad(p) = UpdateIsLoadErrorPageFinish(q)
  BY DEF SuspendAtLoad
<1> HIDE DEF q
<1>4. QED
  BY <1>1, <1>2, <1>3, UpdateErrorPageKnown, NoMoreSuspendedTransitive

\* A new view is not suspended, and neither is its page any more. It may be
\* visible when the old one was not.
LEMMA RecreateKnown ==
  ASSUME NEW p \in WebPageType
  PROVE  /\ Coherent(p) => Coherent(RecreateWebView(p))
         /\ ~RecreateWebView(p).is_suspended
         /\ RecreateWebView(p).is_preload = p.is_preload
<1> DEFINE q == RecreateWebView(p)
<1>1. /\ ~q.is_suspended /\ ~q.dom_suspended /\ ~q.media_suspended
      /\ q.net_error_reload_timer = p.net_error_reload_timer
      /\ q.is_load_error_page_finish = p.is_load_error_page_finish
      /\ q.is_preload = p.is_preload
  BY DEF RecreateWebView, NewView, WebPageType
<1>2. QED
  BY <1>1 DEF Coherent, DomKnown, SuspensionDue, ForegroundOnly, MediaKnown,
     VisibleRuns, ReloadTimerAgrees

-----------------------------------------------------------------------------
(* How a closing page comes to its end.                                    *)

\* A closing page unloads, or waits for its close callback no longer than a
\* timer in the main loop lets it.
Progressing(p) ==
  p.is_closing => p.cleaning_resources \/ p.close_callback_timer.armed

LEMMA SameClosingProgresses ==
  ASSUME NEW p, NEW q, SameClosing(p, q), Progressing(p)
  PROVE  Progressing(q)
  BY DEF SameClosing, Progressing

LEMMA CleanResourcesKnown ==
  ASSUME NEW p \in WebPageType
  PROVE  /\ SameKnowledge(p, CleanResources(p))
         /\ Progressing(CleanResources(p))
<1> DEFINE q == LoadUrl(p, "blank")
           r == [q EXCEPT !.cleaning_resources = TRUE, !.loading = "none"]
<1>1. q \in WebPageType /\ SameKnowledge(p, q)
  BY Load, LoadKnown DEF SameClosing, MaybeUrl, Urls
<1>2. CleanResources(p) = r
  BY DEF CleanResources
<1> HIDE DEF q
<1>3. SameKnowledge(q, r) /\ Progressing(r)
  BY <1>1 DEF WebPageType, SameKnowledge, Progressing
<1>4. QED
  BY <1>1, <1>2, <1>3 DEF SameKnowledge

LEMMA ExecuteCloseCallbackKnown ==
  ASSUME NEW p \in WebPageType
  PROVE  /\ SameKnowledge(p, ExecuteCloseCallback(p))
         /\ Progressing(ExecuteCloseCallback(p))
<1> DEFINE t == Start(p.close_callback_timer)
           q == [p EXCEPT !.script_pending = TRUE, !.close_callback_timer = t]
<1>1. t.armed
  BY DEF Start
<1>2. ExecuteCloseCallback(p) = q
  BY DEF ExecuteCloseCallback
<1> HIDE DEF t
<1>3. SameKnowledge(p, q) /\ Progressing(q)
  BY <1>1 DEF WebPageType, SameKnowledge, Progressing
<1>4. QED
  BY <1>2, <1>3

=============================================================================
