---------------------------- MODULE MCErrorPages ----------------------------
(***************************************************************************)
(* An instance of ErrorPages: an app in a file and one on the web, of each *)
(* trust level; descriptions with members of a wrong type, with sizes that *)
(* are none, and three that WAM does not take. Languages with a script,    *)
(* with a region, with both, and a locale that is no language tag.         *)
(***************************************************************************)
EXTENDS ErrorPages

MCWebUrls == {"https://app"}
MCSizes == ("1280x720" :> <<1280, 720>>) @@ ("1280x0" :> <<1280, 0>>)
             @@ ("wide" :> <<0, 0>>)

Local == ("folderPath" :> Text("/app")) @@ ("main" :> Text("index.html"))
Hosted == ("folderPath" :> Text("/app")) @@ ("main" :> Text("https://app"))

Group(layers) ==
  Object("name" :> Text("group") @@ "owner" :> Bool(TRUE)
         @@ "ownerInfo" :> Object("layers" :> List(layers)))

\* Members of the type they should have, and of another.
Good ==
  ("resolution" :> Text("1280x720")) @@ ("thirdPartyCookiesPolicy" :> Text("deny"))
  @@ ("v8SnapshotFile" :> Text("snapshot")) @@ ("suspendDOMTime" :> Int32(5))
  @@ ("delayMsForLaunchOptimization" :> Int32(0)) @@ ("useNativeScroll" :> Bool(TRUE))
  @@ ("keyFilterTable" :> List(<<Object("from" :> Int32(1) @@ "to" :> Int32(2)),
                                 Null>>))
  @@ ("windowGroup" :> Group(<<Object("name" :> Text("top") @@ "z" :> Int32(1)),
                               Object("name" :> Text("top") @@ "z" :> Int32(2)),
                               Null>>))
  @@ ("supportedEnyoBundleVersions" :> List(<<Text("1"), Int32(2)>>))
  @@ ("webAppPermissions" :> List(<<Text("camera"), Int32(2)>>))

Mistyped ==
  ("resolution" :> Int32(720)) @@ ("thirdPartyCookiesPolicy" :> Bool(TRUE))
  @@ ("v8SnapshotFile" :> Null) @@ ("disallowScrollingInMainFrame" :> Int32(0))
  @@ ("usePrerendering" :> Text("true")) @@ ("keyFilterTable" :> Text("none"))
  @@ ("windowGroup" :> Text("group")) @@ ("class" :> Bool(TRUE))
  @@ ("accessibility" :> List(<<>>)) @@ ("webAppPermissions" :> Text("camera"))
  @@ ("supportedEnyoBundleVersions" :> Int32(1)) @@ ("locationHint" :> Int32(1))

MCJsons ==
  {[json |-> Object(m), disk |-> {"index.html"}] :
     m \in {Local @@ Good,
            Local @@ Mistyped @@ ("trustLevel" :> Text("trusted")),
            Local @@ ("deeplinkingParams" :> Text("{}"))
                  @@ ("trustLevel" :> Text("unknown"))
                  @@ ("resolution" :> Text("1280x0")),
            Hosted @@ ("resolution" :> Text("wide")),
            Local @@ ("handlesRelaunch" :> Text("true")),
            Local @@ ("windowGroup" :> Group(<<Text("top")>>))}}
  \cup {[json |-> Text("appinfo"), disk |-> {}]}

MCDisplays == {<<1920, 1080>>, <<1280, 720>>, <<5120, 2160>>}

Html(subtags) == <<"resources">> \o subtags \o <<"html">>
MCTags == {<<"zh", "Hant", "HK">>, <<"zh", "Hant">>, <<"es", "ES">>, <<"C">>}
MCFileSets ==
  {{}, {<<>>, Html(<<>>), Html(<<"zh">>), Html(<<"zh", "HK">>), Html(<<"zh", "Hant">>),
        Html(<<"zh", "Hant", "HK">>), Html(<<"es">>), Html(<<"es", "ES">>)}}

=============================================================================
