------------------------------ MODULE MCClose ------------------------------
(* One app that closes: killed, closed by its window or by the memory       *)
(* manager, with and without a close callback, again while it is closing,   *)
(* its load failing, its renderer crashing, and the load error page shown   *)
(* and reloaded.                                                            *)
EXTENDS MCLaunchArgs

CloseArgs == {Plain, KeptAlivePreloaded, Preloaded}

CloseNext ==
  /\ \/ \E x \in Apps, app_id \in AppIds, i \in Instances, args \in LaunchArgs :
          OnLaunchUrl(x, app_id, i, args, FALSE)
     \/ \E app_id \in AppIds, i \in Instances, force \in BOOLEAN :
          OnKillApp(app_id, i, force)
     \/ \E i \in Instances : SetForceCloseApp(i)
     \/ UpdateNetworkStatus
     \/ \E x \in Apps :
          \/ DoClose(x)
          \/ \E keep \in BOOLEAN : SetKeepAlive(x, keep)
          \/ \E has \in BOOLEAN : SetHasOnCloseCallback(x, has)
          \/ DidRunCloseCallback(x)
          \/ WebPageClosePageRequested(x)
          \/ \E url \in Urls : NavigationStarts(x, url)
          \/ SubframeNavigationStarts(x)
          \/ PageLoadFinished(x)
          \/ \E network_changed, shown \in BOOLEAN :
               LoadFailed(x, network_changed, shown)
          \/ RenderProcessCrashed(x)
          \/ TimeoutCloseCallback(x)
          \/ NetErrorReloadTimerFires(x)
  /\ WithinBounds'

CloseSpec == Init /\ [][CloseNext]_vars /\ Fairness

=============================================================================
