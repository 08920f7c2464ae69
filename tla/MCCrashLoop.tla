---------------------------- MODULE MCCrashLoop ----------------------------
(* Two apps, of one app id or of two, whose renderers crash again and again *)
(* while the other one is launched, loaded and closed: crashes are counted  *)
(* by app id and every close starts all counts over.                        *)
EXTENDS MCLaunchArgs, TLC

CrashLoopArgs == {Plain, KeptAlive}

Symmetry == Permutations(Apps)

CrashLoopNext ==
  /\ \/ \E x \in Apps, app_id \in AppIds, i \in Instances, args \in LaunchArgs :
          OnLaunchUrl(x, app_id, i, args, FALSE)
     \/ \E app_id \in AppIds, i \in Instances :
          OnKillApp(app_id, i, TRUE)
     \/ \E running_apps \in SUBSET app_list_ : CloseAllApps(running_apps)
     \/ \E x \in Apps :
          \/ \E new_state \in {"fullscreen", "minimized"} :
               WindowStateChange(x, new_state)
          \/ \E url \in Urls : NavigationStarts(x, url)
          \/ RenderProcessCreated(x)
          \/ RenderProcessCrashed(x)
  /\ WithinBounds'

CrashLoopSpec == Init /\ [][CrashLoopNext]_vars

=============================================================================
