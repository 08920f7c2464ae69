----------------------------- MODULE MCShowHide -----------------------------
(* One app that is launched, shown, hidden, suspended, crashed and brought  *)
(* back, in every order, with no load that fails.                           *)
EXTENDS MCLaunchArgs

ShowHideArgs == {Plain, KeptAlive, Hidden, Preloaded, Background, Overlay}

ShowHideNext ==
  /\ \/ \E x \in Apps, app_id \in AppIds, i \in Instances, args \in LaunchArgs :
          OnLaunchUrl(x, app_id, i, args, FALSE)
     \/ \E i \in Instances :
          \/ \E app_id \in AppIds, kind \in RelaunchKinds :
               OnRelaunchApp(app_id, i, kind)
          \/ OnPauseApp(i)
          \/ SetForceCloseApp(i)
     \/ \E x \in Apps :
          \/ WindowNext(x)
          \/ Activate(x)
          \/ Deactivate(x)
          \/ HideCommand(x)
          \/ \E keep \in BOOLEAN : SetKeepAlive(x, keep)
          \/ SubframeNavigationStarts(x)
          \/ \E url \in Urls : NavigationStarts(x, url)
          \/ LoadProgressChanged(x)
          \/ PageLoadFinished(x)
          \/ LoadVisuallyCommitted(x)
          \/ DidSwapCompositorFrame(x)
          \/ RenderProcessCrashed(x)
          \/ DomSuspendTimerFires(x)
  /\ WithinBounds'

ShowHideSpec == Init /\ [][ShowHideNext]_vars

=============================================================================
