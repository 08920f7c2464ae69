------------------------ MODULE SystemServicesProofs ------------------------
(***************************************************************************)
(* A view always has the settings WAM holds, and WAM holds those of every  *)
(* service that runs once no message is on its way.                        *)
(***************************************************************************)
EXTENDS SystemServices, SequenceTheorems, TLAPS

LastOf(seq) == seq[Len(seq)]

LEMMA LastOfAppend ==
  ASSUME NEW S, NEW seq \in Seq(S), NEW e \in S
  PROVE  /\ Append(seq, e) \in Seq(S)
         /\ Append(seq, e) # <<>>
         /\ LastOf(Append(seq, e)) = e
  BY DEF LastOf

LEMMA LastOfTail ==
  ASSUME NEW S, NEW seq \in Seq(S), seq # <<>>
  PROVE  /\ Tail(seq) \in Seq(S)
         /\ Head(seq) \in S
         /\ Tail(seq) = <<>> => Head(seq) = LastOf(seq)
         /\ Tail(seq) # <<>> => LastOf(Tail(seq)) = LastOf(seq)
<1>1. Len(seq) \in Nat \ {0} /\ Len(<<>>) = 0
  BY EmptySeq
<1>2. /\ Tail(seq) \in Seq(S)
      /\ Head(seq) \in S
      /\ Len(Tail(seq)) = Len(seq) - 1
      /\ \A i \in 1 .. Len(Tail(seq)) : Tail(seq)[i] = seq[i + 1]
  BY HeadTailProperties
<1>3. ASSUME Tail(seq) = <<>>
      PROVE  Head(seq) = LastOf(seq)
  <2>1. Len(Tail(seq)) = 0
    BY <1>1, <1>3
  <2>2. Len(seq) = 1
    <3>1. \A n \in Nat : n - 1 = 0 => n = 1
      OBVIOUS
    <3>2. QED
      BY <1>1, <1>2, <2>1, <3>1, Zenon
  <2>3. QED
    BY <2>2 DEF LastOf
<1>4. ASSUME Tail(seq) # <<>>
      PROVE  LastOf(Tail(seq)) = LastOf(seq)
  <2>1. Len(Tail(seq)) \in Nat \ {0}
    BY <1>2, <1>4, EmptySeq
  <2>2. Len(Tail(seq)) \in 1 .. Len(Tail(seq))
    <3>1. \A n \in Nat \ {0} : n \in 1 .. n
      OBVIOUS
    <3>2. QED
      BY <2>1, <3>1, Zenon
  <2>3. Tail(seq)[Len(Tail(seq))] = seq[Len(Tail(seq)) + 1]
    BY <1>2, <2>2
  <2>4. Len(Tail(seq)) + 1 = Len(seq)
    BY <1>1, <1>2
  <2>5. QED
    BY <2>3, <2>4 DEF LastOf
<1>5. QED
  BY <1>2, <1>3, <1>4

\* The records indexed by subscription.
LEMMA Answers ==
  ASSUME NEW p \in Published
  PROVE  \A s \in Subscriptions : /\ Answer(p)[s] \in AnswerType[s]
                                  /\ NoAnswer[s] \in AnswerType[s]
<1>1. \A s \in Subscriptions : s \in {"locale", "option", "network"}
  BY DEF Subscriptions
<1>2. /\ Answer(p)["locale"] \in AnswerType["locale"]
      /\ NoAnswer["locale"] \in AnswerType["locale"]
  BY DEF Answer, NoAnswer, AnswerType, Published, MaybeLanguage
<1>3. /\ Answer(p)["option"] \in AnswerType["option"]
      /\ NoAnswer["option"] \in AnswerType["option"]
  BY DEF Answer, NoAnswer, AnswerType, Published, Option, MaybeCountry
<1>4. /\ Answer(p)["network"] \in AnswerType["network"]
      /\ NoAnswer["network"] \in AnswerType["network"]
  BY DEF Answer, NoAnswer, AnswerType, Published
<1>5. QED
  BY <1>1, <1>2, <1>3, <1>4

-----------------------------------------------------------------------------
(* The inductive invariant.                                                *)

\* The last status on its way to WAM says whether the service runs.
LastStatusIsCurrent ==
  \A v \in Services : statuses[v] # <<>> => (LastOf(statuses[v]) = "connected" <=> v \in up)

\* A service that runs, and of which WAM knows it, has every subscription.
KnownServicesAreSubscribed ==
  \A s \in Subscriptions :
    ServiceOf(s) \in up /\ statuses[ServiceOf(s)] = <<>> => s \in clients

ClientsOfRunningServices ==
  clients \subseteq {s \in Subscriptions : ServiceOf(s) \in up}

\* WAM holds the value of s.
Held(s) ==
  /\ s = "locale" => HasLanguage
  /\ s = "option" => HasOption
  /\ s = "network" => HasNetwork

\* Every answer to s names every value it is about.
Binding(s) == s = "option" => published.named

\* The last answer to a subscription is the current value, and once there is
\* none WAM holds it.
LastAnswerIsCurrent ==
  \A s \in clients :
    /\ answers[s] = <<>> => Held(s)
    /\ answers[s] # <<>> /\ Binding(s) => LastOf(answers[s]) = Answer(published)[s]

MessagesAreCurrent ==
  /\ LastStatusIsCurrent
  /\ KnownServicesAreSubscribed
  /\ ClientsOfRunningServices
  /\ LastAnswerIsCurrent

IInv == TypeOK /\ ViewsFollowSettings /\ MessagesAreCurrent

\* What the type invariant says of the variables of the bus.
BusTypeOK ==
  /\ up \subseteq Services
  /\ published \in Published
  /\ clients \subseteq Subscriptions
  /\ statuses \in [Services -> Seq(ServerStatuses)]
  /\ answers = [s \in Subscriptions |-> answers[s]]
  /\ \A s \in Subscriptions : answers[s] \in Seq(AnswerType[s])
  /\ changes \in Nat /\ stops \in Nat

DeviceTypeOK ==
  /\ system_language \in MaybeLanguage
  /\ local_country \in MaybeCountry
  /\ is_accessibility_enabled_ \in BOOLEAN
  /\ network_connected \in BOOLEAN

ViewOK(v) == v \in View /\ ErrorPageIsKnown(v)

AppTypeOK ==
  /\ app_list_ \subseteq Apps
  /\ views = [x \in Apps |-> views[x]]
  /\ \A x \in Apps : ViewOK(views[x])

LEMMA TypeParts == TypeOK <=> BusTypeOK /\ DeviceTypeOK /\ AppTypeOK
  BY DEF TypeOK, BusTypeOK, DeviceTypeOK, AppTypeOK, ViewOK

LEMMA ServicesOfSubscriptions ==
  \A s \in Subscriptions : ServiceOf(s) \in Services
  BY DEF Subscriptions, ServiceOf, Services

-----------------------------------------------------------------------------
(* The services.                                                           *)

LEMMA ServiceStartsKeeps ==
  ASSUME BusTypeOK, MessagesAreCurrent, NEW v \in Services, ServiceStarts(v)
  PROVE  BusTypeOK' /\ MessagesAreCurrent'
<1>1. /\ statuses' = [statuses EXCEPT ![v] = Append(@, "connected")]
      /\ up' = up \cup {v} /\ v \notin up
      /\ UNCHANGED <<published, clients, answers, changes, stops, device_vars>>
  BY DEF ServiceStarts
<1>2. /\ Append(statuses[v], "connected") \in Seq(ServerStatuses)
      /\ Append(statuses[v], "connected") # <<>>
      /\ LastOf(Append(statuses[v], "connected")) = "connected"
  <2>1. statuses[v] \in Seq(ServerStatuses)
    BY DEF BusTypeOK
  <2>2. {"connected", "disconnected"} \subseteq ServerStatuses
    BY DEF ServerStatuses
  <2>3. QED
    BY <2>1, <2>2, LastOfAppend
<1>3. BusTypeOK'
  BY <1>1, <1>2 DEF BusTypeOK
<1>4. LastStatusIsCurrent'
  BY <1>1, <1>2 DEF BusTypeOK, MessagesAreCurrent, LastStatusIsCurrent
<1>5. KnownServicesAreSubscribed'
  BY <1>1, <1>2, ServicesOfSubscriptions
  DEF BusTypeOK, MessagesAreCurrent, KnownServicesAreSubscribed
<1>6. ClientsOfRunningServices'
  BY <1>1 DEF MessagesAreCurrent, ClientsOfRunningServices
<1>7. LastAnswerIsCurrent'
  BY <1>1 DEF MessagesAreCurrent, LastAnswerIsCurrent, Held, Binding, HasLanguage,
              HasOption, HasNetwork, Answer, device_vars
<1>8. QED
  BY <1>3, <1>4, <1>5, <1>6, <1>7 DEF MessagesAreCurrent

LEMMA ServiceStopsKeeps ==
  ASSUME BusTypeOK, MessagesAreCurrent, NEW v \in Services, ServiceStops(v)
  PROVE  BusTypeOK' /\ MessagesAreCurrent'
<1>1. /\ statuses' = [statuses EXCEPT ![v] = Append(@, "disconnected")]
      /\ up' = up \ {v} /\ v \in up
      /\ clients' = {s \in clients : ServiceOf(s) # v}
      /\ answers' = [s \in Subscriptions |->
                       IF s \in clients /\ ServiceOf(s) = v
                         THEN Append(answers[s], NoAnswer[s])
                         ELSE answers[s]]
      /\ stops' = stops + 1
      /\ UNCHANGED <<published, changes, device_vars>>
  BY DEF ServiceStops
<1>2. /\ Append(statuses[v], "disconnected") \in Seq(ServerStatuses)
      /\ Append(statuses[v], "disconnected") # <<>>
      /\ LastOf(Append(statuses[v], "disconnected")) = "disconnected"
  <2>1. statuses[v] \in Seq(ServerStatuses)
    BY DEF BusTypeOK
  <2>2. {"connected", "disconnected"} \subseteq ServerStatuses
    BY DEF ServerStatuses
  <2>3. QED
    BY <2>1, <2>2, LastOfAppend
<1>3. BusTypeOK'
  <2>1. \A s \in Subscriptions : answers'[s] \in Seq(AnswerType[s])
    <3>1. SUFFICES ASSUME NEW s \in Subscriptions
                   PROVE  answers'[s] \in Seq(AnswerType[s])
      OBVIOUS
    <3>2. Append(answers[s], NoAnswer[s]) \in Seq(AnswerType[s])
      <4>1. NoAnswer[s] \in AnswerType[s]
        BY Answers DEF BusTypeOK
      <4>2. answers[s] \in Seq(AnswerType[s])
        BY DEF BusTypeOK
      <4>3. QED
        BY <4>1, <4>2, LastOfAppend
    <3>3. QED
      BY <1>1, <3>2 DEF BusTypeOK
  <2>2. answers' = [s \in Subscriptions |-> answers'[s]]
    BY <1>1
  <2>3. QED
    BY <1>1, <1>2, <2>1, <2>2 DEF BusTypeOK
<1>4. LastStatusIsCurrent'
  BY <1>1, <1>2 DEF BusTypeOK, MessagesAreCurrent, LastStatusIsCurrent
<1>5. KnownServicesAreSubscribed'
  BY <1>1, ServicesOfSubscriptions
  DEF BusTypeOK, MessagesAreCurrent, KnownServicesAreSubscribed
<1>6. ClientsOfRunningServices'
  BY <1>1 DEF MessagesAreCurrent, ClientsOfRunningServices
<1>7. LastAnswerIsCurrent'
  <2>1. \A s \in clients' : s \in clients /\ answers'[s] = answers[s]
    BY <1>1 DEF BusTypeOK
  <2>2. QED
    BY <1>1, <2>1 DEF MessagesAreCurrent, LastAnswerIsCurrent, Held, Binding,
                      HasLanguage, HasOption, HasNetwork, Answer, device_vars
<1>8. QED
  BY <1>3, <1>4, <1>5, <1>6, <1>7 DEF MessagesAreCurrent

\* What a change of one setting has to leave alone.
LEMMA PublishKeeps ==
  ASSUME BusTypeOK, MessagesAreCurrent, DeviceTypeOK,
         NEW s \in Subscriptions, NEW p \in Published, NEW a \in AnswerType[s],
         (s = "option" /\ ~p.named) \/ a = Answer(p)[s],
         \A t \in Subscriptions : t # s => Answer(p)[t] = Answer(published)[t],
         s # "option" => p.named = published.named,
         Publish(s, p, a)
  PROVE  BusTypeOK' /\ MessagesAreCurrent'
<1>1. /\ published' = p
      /\ answers' = IF s \in clients THEN [answers EXCEPT ![s] = Append(@, a)]
                                     ELSE answers
      /\ changes' = changes + 1
      /\ ServiceOf(s) \in up
      /\ UNCHANGED <<up, clients, statuses, stops, device_vars>>
  BY DEF Publish
<1>2. /\ Append(answers[s], a) \in Seq(AnswerType[s])
      /\ Append(answers[s], a) # <<>>
      /\ LastOf(Append(answers[s], a)) = a
  <2>1. answers[s] \in Seq(AnswerType[s])
    BY DEF BusTypeOK
  <2>2. QED
    BY <2>1, LastOfAppend
<1>3. /\ \A t \in Subscriptions : t # s => answers'[t] = answers[t]
      /\ s \in clients => answers'[s] = Append(answers[s], a)
      /\ s \notin clients => answers' = answers
      /\ answers' = [t \in Subscriptions |-> answers'[t]]
  BY <1>1 DEF BusTypeOK
<1>4. BusTypeOK'
  <2>1. ASSUME NEW t \in Subscriptions
        PROVE  answers'[t] \in Seq(AnswerType[t])
    <3>1. CASE t = s /\ s \in clients
      BY <1>2, <1>3, <3>1
    <3>2. CASE ~(t = s /\ s \in clients)
      <4>1. answers'[t] = answers[t]
        BY <1>3, <3>2
      <4>2. QED
        BY <4>1 DEF BusTypeOK
    <3>3. QED
      BY <3>1, <3>2
  <2>2. changes' \in Nat
    BY <1>1 DEF BusTypeOK
  <2>3. QED
    BY <1>1, <1>3, <2>1, <2>2 DEF BusTypeOK
<1>5. LastStatusIsCurrent' /\ KnownServicesAreSubscribed' /\ ClientsOfRunningServices'
  BY <1>1 DEF MessagesAreCurrent, LastStatusIsCurrent, KnownServicesAreSubscribed,
              ClientsOfRunningServices
<1>6. LastAnswerIsCurrent'
  <2>1. SUFFICES ASSUME NEW t \in clients
                 PROVE  /\ answers'[t] = <<>> => Held(t)'
                        /\ answers'[t] # <<>> /\ Binding(t)'
                             => LastOf(answers'[t]) = Answer(p)[t]
    BY <1>1 DEF LastAnswerIsCurrent, Answer
  <2>2. t \in Subscriptions
    BY DEF BusTypeOK
  <2>3. CASE t = s
    BY <1>1, <1>2, <1>3, <2>3 DEF Binding
  <2>4. CASE t # s
    <3>1. answers'[t] = answers[t] /\ Answer(p)[t] = Answer(published)[t]
      BY <1>3, <2>2, <2>4
    <3>2. Binding(t)' <=> Binding(t)
      BY <1>1, <2>4 DEF Binding
    <3>3. Held(t)' <=> Held(t)
      <4>1. CASE t = "locale"
        BY <1>1, <3>1, <4>1 DEF Held, HasLanguage, Answer, device_vars
      <4>2. CASE t = "option"
        <5>1. p.country = published.country /\ p.guidance = published.guidance
          BY <3>1, <4>2 DEF Answer
        <5>2. p.named = published.named
          BY <2>4, <4>2
        <5>3. QED
          BY <1>1, <4>2, <5>1, <5>2 DEF Held, HasOption, device_vars
      <4>3. CASE t = "network"
        BY <1>1, <3>1, <4>3 DEF Held, HasNetwork, Answer, device_vars
      <4>4. QED
        BY <2>2, <4>1, <4>2, <4>3 DEF Subscriptions
    <3>4. QED
      BY <3>1, <3>2, <3>3 DEF MessagesAreCurrent, LastAnswerIsCurrent
  <2>5. QED
    BY <2>3, <2>4
<1>7. QED
  BY <1>4, <1>5, <1>6 DEF MessagesAreCurrent

LEMMA ServiceNextKeeps ==
  ASSUME BusTypeOK, MessagesAreCurrent, DeviceTypeOK, ServiceNext
  PROVE  BusTypeOK' /\ MessagesAreCurrent'
<1>1. ASSUME NEW language \in Languages, ChangeLanguage(language)
      PROVE  BusTypeOK' /\ MessagesAreCurrent'
  <2> DEFINE p == [published EXCEPT !.language = language]
  <2>1. p \in Published /\ p.named = published.named
    BY DEF BusTypeOK, Published
  <2>2. /\ "locale" \in Subscriptions
        /\ language \in AnswerType["locale"]
        /\ language = Answer(p)["locale"]
    BY DEF BusTypeOK, Published, Subscriptions, AnswerType, Answer, MaybeLanguage
  <2>3. \A t \in Subscriptions : t # "locale" => Answer(p)[t] = Answer(published)[t]
    BY DEF BusTypeOK, Published, Subscriptions, Answer
  <2>4. Publish("locale", p, language)
    BY <1>1 DEF ChangeLanguage
  <2>5. QED
    BY <2>1, <2>2, <2>3, <2>4, PublishKeeps
<1>2. ASSUME NEW country \in Countries, NEW guidance \in BOOLEAN,
             ChangeOption(country, guidance)
      PROVE  BusTypeOK' /\ MessagesAreCurrent'
  <2> DEFINE p == [published EXCEPT !.country = country, !.guidance = guidance,
                                    !.named = TRUE]
             q == [p EXCEPT !.named = FALSE]
             all == Answer(p)["option"]
             some == [all EXCEPT !.country = "none"]
  <2>1. p \in Published /\ q \in Published /\ ~q.named
    BY DEF BusTypeOK, Published
  <2>2. "option" \in Subscriptions /\ all = Answer(p)["option"]
    BY DEF Subscriptions
  <2>3. all \in AnswerType["option"] /\ some \in AnswerType["option"]
    <3>1. all = [country |-> country, guidance |-> guidance]
      BY DEF BusTypeOK, Published, Answer
    <3>2. QED
      BY <3>1 DEF AnswerType, Option, MaybeCountry
  <2>4. \A t \in Subscriptions :
          t # "option" => /\ Answer(p)[t] = Answer(published)[t]
                          /\ Answer(q)[t] = Answer(published)[t]
    BY DEF BusTypeOK, Published, Subscriptions, Answer
  <2>5. Publish("option", p, all) \/ Publish("option", q, some)
    BY <1>2 DEF ChangeOption
  <2>6. QED
    BY <2>1, <2>2, <2>3, <2>4, <2>5, PublishKeeps
<1>3. ASSUME NEW online \in BOOLEAN, ChangeNetwork(online)
      PROVE  BusTypeOK' /\ MessagesAreCurrent'
  <2> DEFINE p == [published EXCEPT !.online = online]
  <2>1. p \in Published /\ p.named = published.named
    BY DEF BusTypeOK, Published
  <2>2. /\ "network" \in Subscriptions
        /\ online \in AnswerType["network"]
        /\ online = Answer(p)["network"]
    BY DEF BusTypeOK, Published, Subscriptions, AnswerType, Answer
  <2>3. \A t \in Subscriptions : t # "network" => Answer(p)[t] = Answer(published)[t]
    BY DEF BusTypeOK, Published, Subscriptions, Answer
  <2>4. Publish("network", p, online)
    BY <1>3 DEF ChangeNetwork
  <2>5. QED
    BY <2>1, <2>2, <2>3, <2>4, PublishKeeps
<1>4. QED
  BY <1>1, <1>2, <1>3, ServiceStartsKeeps, ServiceStopsKeeps DEF ServiceNext

-----------------------------------------------------------------------------
(* WAM hears that a service has started or stopped.                        *)

LEMMA ServerStatusCallbackKeeps ==
  ASSUME BusTypeOK, MessagesAreCurrent, DeviceTypeOK,
         NEW v \in Services, ServerStatusCallback(v)
  PROVE  BusTypeOK' /\ MessagesAreCurrent'
<1> DEFINE status == Head(statuses[v])
           subs == SubscriptionsFor(v, status)
           served == {s \in subs : ServiceOf(s) \in up}
<1>1. /\ statuses[v] # <<>>
      /\ statuses' = [statuses EXCEPT ![v] = Tail(@)]
      /\ clients' = clients \cup served
      /\ answers' = [s \in Subscriptions |->
                       IF s \in served
                         THEN Append(answers[s], Answer(published)[s])
                         ELSE IF s \in subs THEN Append(answers[s], NoAnswer[s])
                                            ELSE answers[s]]
      /\ published' = [published EXCEPT !.named = @ \/ "option" \in served]
      /\ UNCHANGED <<up, changes, stops, device_vars>>
  BY DEF ServerStatusCallback, Subscribe
<1>2. /\ Tail(statuses[v]) \in Seq(ServerStatuses)
      /\ Tail(statuses[v]) = <<>> => status = LastOf(statuses[v])
      /\ Tail(statuses[v]) # <<>> => LastOf(Tail(statuses[v])) = LastOf(statuses[v])
  <2>1. statuses[v] \in Seq(ServerStatuses)
    BY DEF BusTypeOK
  <2>2. QED
    BY <1>1, <2>1, LastOfTail
<1>3. subs \subseteq {s \in Subscriptions : ServiceOf(s) = v}
  BY DEF SubscriptionsFor, Subscriptions, ServiceOf, Services
<1>4. status = "connected" => subs = {s \in Subscriptions : ServiceOf(s) = v}
  BY DEF SubscriptionsFor, Subscriptions, ServiceOf, Services
<1>5. published' \in Published /\ Answer(published)' = Answer(published)
  BY <1>1, Zenon DEF BusTypeOK, Published, Answer
<1>6. \A s \in Subscriptions :
        /\ Append(answers[s], Answer(published)[s]) \in Seq(AnswerType[s])
        /\ Append(answers[s], Answer(published)[s]) # <<>>
        /\ LastOf(Append(answers[s], Answer(published)[s])) = Answer(published)[s]
        /\ Append(answers[s], NoAnswer[s]) \in Seq(AnswerType[s])
  <2>1. SUFFICES ASSUME NEW s \in Subscriptions
                 PROVE  /\ Append(answers[s], Answer(published)[s])
                               \in Seq(AnswerType[s])
                        /\ Append(answers[s], Answer(published)[s]) # <<>>
                        /\ LastOf(Append(answers[s], Answer(published)[s]))
                               = Answer(published)[s]
                        /\ Append(answers[s], NoAnswer[s]) \in Seq(AnswerType[s])
    OBVIOUS
  <2>2. answers[s] \in Seq(AnswerType[s])
    BY DEF BusTypeOK
  <2>3. Answer(published)[s] \in AnswerType[s] /\ NoAnswer[s] \in AnswerType[s]
    BY Answers DEF BusTypeOK
  <2>4. QED
    BY <2>2, <2>3, LastOfAppend
<1>7. BusTypeOK'
  <2>1. \A s \in Subscriptions : answers'[s] \in Seq(AnswerType[s])
    BY <1>1, <1>6 DEF BusTypeOK
  <2>2. clients' \subseteq Subscriptions
    BY <1>1, <1>3 DEF BusTypeOK
  <2>3. statuses' \in [Services -> Seq(ServerStatuses)]
    BY <1>1, <1>2 DEF BusTypeOK
  <2>4. answers' = [s \in Subscriptions |-> answers'[s]]
    BY <1>1
  <2>5. QED
    BY <1>1, <1>5, <2>1, <2>2, <2>3, <2>4 DEF BusTypeOK
<1>8. LastStatusIsCurrent'
  BY <1>1, <1>2 DEF BusTypeOK, MessagesAreCurrent, LastStatusIsCurrent
<1>9. KnownServicesAreSubscribed'
  <2>1. SUFFICES ASSUME NEW s \in Subscriptions, ServiceOf(s) \in up,
                        statuses'[ServiceOf(s)] = <<>>
                 PROVE  s \in clients'
    BY <1>1 DEF KnownServicesAreSubscribed
  <2>2. CASE ServiceOf(s) = v
    <3>1. Tail(statuses[v]) = <<>>
      BY <1>1, <2>1, <2>2 DEF BusTypeOK
    <3>2. status = "connected"
      BY <1>1, <1>2, <2>1, <2>2, <3>1 DEF MessagesAreCurrent, LastStatusIsCurrent
    <3>3. QED
      BY <1>1, <1>4, <2>1, <2>2, <3>2
  <2>3. CASE ServiceOf(s) # v
    <3>1. statuses'[ServiceOf(s)] = statuses[ServiceOf(s)]
      BY <1>1, <2>3, ServicesOfSubscriptions DEF BusTypeOK
    <3>2. QED
      BY <1>1, <2>1, <3>1 DEF MessagesAreCurrent, KnownServicesAreSubscribed
  <2>4. QED
    BY <2>2, <2>3
<1>10. ClientsOfRunningServices'
  BY <1>1, <1>3 DEF MessagesAreCurrent, ClientsOfRunningServices
<1>11. LastAnswerIsCurrent'
  <2>1. SUFFICES ASSUME NEW s \in clients'
                 PROVE  /\ answers'[s] = <<>> => Held(s)'
                        /\ answers'[s] # <<>> /\ Binding(s)'
                             => LastOf(answers'[s]) = Answer(published)[s]
    BY <1>5 DEF LastAnswerIsCurrent
  <2>2. s \in Subscriptions
    BY <1>7 DEF BusTypeOK
  <2>3. CASE s \in served
    BY <1>1, <1>6, <2>2, <2>3
  <2>4. CASE s \notin served
    <3>1. s \in clients /\ ServiceOf(s) \in up
      BY <1>1, <2>1, <2>4 DEF MessagesAreCurrent, ClientsOfRunningServices
    <3>2. s \notin subs
      BY <2>4, <3>1
    <3>3. answers'[s] = answers[s]
      BY <1>1, <2>2, <2>4, <3>2
    <3>4. CASE s = "option"
      <4>1. published' = published
        BY <1>1, <1>5, <2>4, <3>4, Zenon DEF BusTypeOK, Published
      <4>2. QED
        BY <1>1, <3>1, <3>3, <4>1 DEF MessagesAreCurrent, LastAnswerIsCurrent, Held,
           Binding, HasLanguage, HasOption, HasNetwork, device_vars
    <3>5. CASE s # "option"
      <4>1. Held(s)' <=> Held(s)
        BY <1>1, <3>5 DEF BusTypeOK, Published, Held, HasLanguage, HasNetwork,
                          device_vars
      <4>2. QED
        BY <3>1, <3>3, <3>5, <4>1 DEF MessagesAreCurrent, LastAnswerIsCurrent, Binding
    <3>6. QED
      BY <3>4, <3>5
  <2>5. QED
    BY <2>3, <2>4
<1>12. QED
  BY <1>7, <1>8, <1>9, <1>10, <1>11 DEF MessagesAreCurrent

-----------------------------------------------------------------------------
(* WAM receives an answer.                                                 *)

\* Receiving the last answer to s makes WAM hold its value; nothing else changes.
LEMMA ReceiveKeeps ==
  ASSUME BusTypeOK, MessagesAreCurrent, NEW s \in Subscriptions, NEW a,
         Receive(s, a),
         a = Answer(published)[s] /\ Binding(s) => Held(s)',
         ~Binding(s) => Held(s)',
         \A t \in Subscriptions : t # s => (Held(t)' <=> Held(t))
  PROVE  BusTypeOK' /\ MessagesAreCurrent'
<1>1. /\ answers[s] # <<>> /\ a = Head(answers[s])
      /\ answers' = [answers EXCEPT ![s] = Tail(@)]
      /\ UNCHANGED <<up, published, clients, statuses, changes, stops>>
  BY DEF Receive
<1>2. /\ Tail(answers[s]) \in Seq(AnswerType[s])
      /\ Tail(answers[s]) = <<>> => a = LastOf(answers[s])
      /\ Tail(answers[s]) # <<>> => LastOf(Tail(answers[s])) = LastOf(answers[s])
  <2>1. answers[s] \in Seq(AnswerType[s])
    BY DEF BusTypeOK
  <2>2. QED
    BY <1>1, <2>1, LastOfTail
<1>3. /\ answers'[s] = Tail(answers[s])
      /\ \A t \in Subscriptions : t # s => answers'[t] = answers[t]
      /\ answers' = [t \in Subscriptions |-> answers'[t]]
  BY <1>1 DEF BusTypeOK
<1>4. BusTypeOK'
  <2>1. ASSUME NEW t \in Subscriptions
        PROVE  answers'[t] \in Seq(AnswerType[t])
    <3>1. CASE t = s
      BY <1>2, <1>3, <3>1
    <3>2. CASE t # s
      <4>1. answers'[t] = answers[t]
        BY <1>3, <3>2
      <4>2. QED
        BY <4>1 DEF BusTypeOK
    <3>3. QED
      BY <3>1, <3>2
  <2>2. QED
    BY <1>1, <1>3, <2>1 DEF BusTypeOK
<1>5. LastStatusIsCurrent' /\ KnownServicesAreSubscribed' /\ ClientsOfRunningServices'
  BY <1>1 DEF MessagesAreCurrent, LastStatusIsCurrent, KnownServicesAreSubscribed,
              ClientsOfRunningServices
<1>6. LastAnswerIsCurrent'
  <2>1. SUFFICES ASSUME NEW t \in clients
                 PROVE  /\ answers'[t] = <<>> => Held(t)'
                        /\ answers'[t] # <<>> /\ Binding(t)
                             => LastOf(answers'[t]) = Answer(published)[t]
    BY <1>1 DEF LastAnswerIsCurrent, Answer, Binding
  <2>2. t \in Subscriptions
    BY DEF BusTypeOK
  <2>3. /\ answers[t] = <<>> => Held(t)
        /\ answers[t] # <<>> /\ Binding(t)
             => LastOf(answers[t]) = Answer(published)[t]
    BY DEF MessagesAreCurrent, LastAnswerIsCurrent
  <2>4. CASE t = s
    BY <1>1, <1>2, <1>3, <2>3, <2>4
  <2>5. CASE t # s
    BY <1>3, <2>2, <2>3, <2>5
  <2>6. QED
    BY <2>4, <2>5
<1>7. QED
  BY <1>4, <1>5, <1>6 DEF MessagesAreCurrent

LEMMA LocaleCallbackKeeps ==
  ASSUME BusTypeOK, MessagesAreCurrent, DeviceTypeOK,
         GetSystemLocalePreferencesCallback
  PROVE  BusTypeOK' /\ MessagesAreCurrent' /\ DeviceTypeOK'
<1>1. PICK language \in MaybeLanguage :
        /\ Receive("locale", language)
        /\ IF language \in {"none", system_language}
             THEN UNCHANGED <<system_language, views>>
             ELSE SetSystemLanguage(language)
        /\ UNCHANGED <<local_country, is_accessibility_enabled_, network_connected>>
  BY DEF GetSystemLocalePreferencesCallback
<1>2. UNCHANGED published
  BY <1>1 DEF Receive
<1>3. system_language' = IF language = "none" THEN system_language ELSE language
  BY <1>1 DEF SetSystemLanguage
<1>4. language = Answer(published)["locale"] => Held("locale")'
  <2>1. published.language \in Languages
    BY DEF BusTypeOK, Published
  <2>2. QED
    BY <1>2, <1>3, <2>1, ConstantsAssumption DEF Answer, Held, HasLanguage
<1>5. \A t \in Subscriptions : t # "locale" => (Held(t)' <=> Held(t))
  BY <1>1, <1>2 DEF Held, HasOption, HasNetwork
<1>6. Binding("locale") /\ "locale" \in Subscriptions
  BY DEF Binding, Subscriptions
<1>7. QED
  BY <1>1, <1>3, <1>4, <1>5, <1>6, ReceiveKeeps DEF DeviceTypeOK

LEMMA OptionCallbackKeeps ==
  ASSUME BusTypeOK, MessagesAreCurrent, DeviceTypeOK, GetSystemOptionCallback
  PROVE  BusTypeOK' /\ MessagesAreCurrent' /\ DeviceTypeOK'
<1>1. PICK o \in Option :
        /\ Receive("option", o)
        /\ o.country = "none"
             => UNCHANGED <<local_country, is_accessibility_enabled_>>
        /\ o.country # "none"
             => local_country' = o.country /\ is_accessibility_enabled_' = o.guidance
        /\ UNCHANGED <<system_language, network_connected>>
  BY DEF GetSystemOptionCallback
<1>2. UNCHANGED published
  BY <1>1 DEF Receive
<1>3. o = Answer(published)["option"] => Held("option")'
  <2>1. published.country \in Countries
    BY DEF BusTypeOK, Published
  <2>2. ASSUME o = Answer(published)["option"]
        PROVE  o.country = published.country /\ o.guidance = published.guidance
    BY <2>2 DEF Answer
  <2>3. QED
    BY <1>1, <1>2, <2>1, <2>2, ConstantsAssumption DEF Held, HasOption
<1>4. ~Binding("option") => Held("option")'
  BY <1>2 DEF Binding, Held, HasOption
<1>5. \A t \in Subscriptions : t # "option" => (Held(t)' <=> Held(t))
  BY <1>1, <1>2 DEF Held, HasLanguage, HasNetwork
<1>6. "option" \in Subscriptions
  BY DEF Subscriptions
<1>7. DeviceTypeOK'
  BY <1>1 DEF DeviceTypeOK, Option, MaybeCountry
<1>8. QED
  BY <1>1, <1>3, <1>4, <1>5, <1>6, <1>7, ReceiveKeeps

LEMMA NetworkCallbackKeeps ==
  ASSUME BusTypeOK, MessagesAreCurrent, DeviceTypeOK,
         GetNetworkConnectionStatusCallback
  PROVE  BusTypeOK' /\ MessagesAreCurrent' /\ DeviceTypeOK'
<1>1. PICK online \in BOOLEAN :
        /\ Receive("network", online)
        /\ network_connected' = online
        /\ UNCHANGED <<system_language, local_country, is_accessibility_enabled_>>
  BY DEF GetNetworkConnectionStatusCallback, UpdateNetworkStatus
<1>2. UNCHANGED published
  BY <1>1 DEF Receive
<1>3. online = Answer(published)["network"] => Held("network")'
  BY <1>1, <1>2 DEF Answer, Held, HasNetwork
<1>4. \A t \in Subscriptions : t # "network" => (Held(t)' <=> Held(t))
  BY <1>1, <1>2 DEF Held, HasLanguage, HasOption
<1>5. Binding("network") /\ "network" \in Subscriptions
  BY DEF Binding, Subscriptions
<1>6. DeviceTypeOK'
  BY <1>1 DEF DeviceTypeOK
<1>7. QED
  BY <1>1, <1>3, <1>4, <1>5, <1>6, ReceiveKeeps

-----------------------------------------------------------------------------
(* Views.                                                                  *)

\* v is a view of a running app that has the settings WAM holds.
Follows(v) ==
  /\ v.accept_languages = system_language
  /\ v.audio_guidance = is_accessibility_enabled_
  /\ v.initialized => v.locale = system_language /\ v.country = local_country

LEMMA ViewFunctions ==
  ASSUME NEW v, ViewOK(v), NEW x \in Apps
  PROVE  /\ \A l \in MaybeLanguage : ViewOK(SetPreferredLanguages(v, l))
         /\ \A c \in MaybeCountry : ViewOK(HandleDeviceInfoChanged(v, c))
         /\ \A on \in BOOLEAN : /\ ViewOK(SetAudioGuidanceOn(v, on))
                               /\ ViewOK(SetUseAccessibility(x, v, on))
         /\ ViewOK(ReloadFailed(v))
<1>1. \A l \in MaybeLanguage : ViewOK(SetPreferredLanguages(v, l))
  BY DEF ViewOK, View, ErrorPageIsKnown, SetPreferredLanguages
<1>2. \A c \in MaybeCountry : ViewOK(HandleDeviceInfoChanged(v, c))
  BY DEF ViewOK, View, ErrorPageIsKnown, HandleDeviceInfoChanged
<1>3. \A on \in BOOLEAN : ViewOK(SetAudioGuidanceOn(v, on))
  BY DEF ViewOK, View, ErrorPageIsKnown, SetAudioGuidanceOn
<1>4. \A on \in BOOLEAN : ViewOK(SetUseAccessibility(x, v, on))
  BY DEF ViewOK, View, ErrorPageIsKnown, SetUseAccessibility
<1>5. ViewOK(ReloadFailed(v))
  BY DEF ViewOK, View, ErrorPageIsKnown, ReloadFailed
<1>6. QED
  BY <1>1, <1>2, <1>3, <1>4, <1>5

LEMMA InitViewIsOK ==
  ASSUME DeviceTypeOK, NEW v, ViewOK(v)
  PROVE  ViewOK(InitView(v)) /\ ViewOK(NewPage)
         /\ (~v.initialized => Follows(InitView(v)))
<1>1. ViewOK(InitView(v))
  BY DEF DeviceTypeOK, ViewOK, View, ErrorPageIsKnown, InitView
<1>2. ViewOK(NewPage)
  BY DEF ViewOK, View, ErrorPageIsKnown, NewPage, MaybeLanguage, MaybeCountry
<1>3. ~v.initialized => Follows(InitView(v))
  BY DEF ViewOK, View, Follows, InitView
<1>4. QED
  BY <1>1, <1>2, <1>3

LEMMA FollowsIsTheProperty == ViewsFollowSettings <=> \A x \in app_list_ : Follows(views[x])
  BY DEF ViewsFollowSettings, Follows

\* The invariant of the apps, as it is shown of every action.
AppInv == AppTypeOK /\ ViewsFollowSettings

LEMMA AppInvParts ==
  AppInv <=> /\ app_list_ \subseteq Apps
             /\ views = [x \in Apps |-> views[x]]
             /\ \A x \in Apps : /\ ViewOK(views[x])
                                /\ x \in app_list_ => Follows(views[x])
<1>1. AppInv => \A x \in Apps : x \in app_list_ => Follows(views[x])
  BY FollowsIsTheProperty DEF AppInv
<1>2. ASSUME app_list_ \subseteq Apps,
             \A x \in Apps : x \in app_list_ => Follows(views[x])
      PROVE  ViewsFollowSettings
  BY <1>2, FollowsIsTheProperty
<1>3. QED
  BY <1>1, <1>2 DEF AppInv, AppTypeOK

LEMMA AppInvKeptByLocale ==
  ASSUME AppInv, DeviceTypeOK, GetSystemLocalePreferencesCallback
  PROVE  AppInv'
<1>1. PICK language \in MaybeLanguage :
        /\ Receive("locale", language)
        /\ IF language \in {"none", system_language}
             THEN UNCHANGED <<system_language, views>>
             ELSE SetSystemLanguage(language)
        /\ UNCHANGED <<local_country, is_accessibility_enabled_, network_connected>>
  BY DEF GetSystemLocalePreferencesCallback
<1>2. UNCHANGED app_list_
  BY <1>1 DEF Receive
<1>3. CASE UNCHANGED <<system_language, views>>
  BY <1>1, <1>2, <1>3 DEF AppInv, AppTypeOK, ViewsFollowSettings
<1>4. CASE SetSystemLanguage(language)
  <2>1. /\ system_language' = language
        /\ views' = [x \in Apps |-> IF x \in app_list_
                                      THEN SetPreferredLanguages(views[x], language)
                                      ELSE views[x]]
    BY <1>4 DEF SetSystemLanguage, TellApps
  <2>2. ASSUME NEW x \in Apps
        PROVE  ViewOK(views'[x]) /\ (x \in app_list_ => Follows(views[x])')
    <3>1. ViewOK(views[x]) /\ (x \in app_list_ => Follows(views[x]))
      BY AppInvParts
    <3>2. CASE x \notin app_list_
      BY <2>1, <3>1, <3>2
    <3>3. CASE x \in app_list_
      <4>1. views'[x] = SetPreferredLanguages(views[x], language)
        BY <2>1, <3>3
      <4>2. ViewOK(views'[x])
        BY <3>1, <4>1, ViewFunctions
      <4>3. Follows(views[x])'
        BY <1>1, <2>1, <3>1, <3>3, <4>1 DEF Follows, SetPreferredLanguages, ViewOK, View
      <4>4. QED
        BY <4>2, <4>3
    <3>4. QED
      BY <3>2, <3>3
  <2>3. views' = [x \in Apps |-> views'[x]]
    BY <2>1
  <2>4. QED
    BY <1>2, <2>2, <2>3, AppInvParts DEF AppInv, AppTypeOK, ViewOK, ViewsFollowSettings, Follows
<1>5. QED
  BY <1>1, <1>3, <1>4

\* What SetOptions makes of a view that has the settings so far.
LEMMA SetOptionsFollows ==
  ASSUME DeviceTypeOK, NEW x \in Apps, NEW o \in Option, o.country # "none",
         NEW v, ViewOK(v), Follows(v)
  PROVE  LET w == SetOptions(x, v, o)
         IN  /\ ViewOK(w)
             /\ w.accept_languages = system_language
             /\ w.audio_guidance = o.guidance
             /\ w.initialized => w.locale = system_language /\ w.country = o.country
<1> DEFINE w == IF o.country = local_country THEN v
                                             ELSE HandleDeviceInfoChanged(v, o.country)
           g == SetAudioGuidanceOn(w, o.guidance)
<1>1. o.country \in MaybeCountry /\ o.guidance \in BOOLEAN
  BY DEF Option
<1>2. /\ ViewOK(w)
      /\ w.accept_languages = system_language
      /\ w.audio_guidance = is_accessibility_enabled_
      /\ w.initialized => w.locale = system_language /\ w.country = o.country
  <2>1. CASE o.country = local_country
    BY <2>1 DEF Follows
  <2>2. CASE o.country # local_country
    <3>1. w = HandleDeviceInfoChanged(v, o.country)
      BY <2>2
    <3>2. ViewOK(w)
      BY <1>1, <3>1, ViewFunctions
    <3>3. QED
      BY <3>1, <3>2 DEF Follows, HandleDeviceInfoChanged, ViewOK, View
  <2>3. QED
    BY <2>1, <2>2
<1>3. ASSUME o.guidance # is_accessibility_enabled_
      PROVE  LET u == SetUseAccessibility(x, g, o.guidance)
             IN  /\ ViewOK(u)
                 /\ u.accept_languages = system_language
                 /\ u.audio_guidance = o.guidance
                 /\ u.initialized => u.locale = system_language /\ u.country = o.country
  <2>1. /\ ViewOK(g)
        /\ g.accept_languages = system_language
        /\ g.audio_guidance = o.guidance
        /\ g.initialized => g.locale = system_language /\ g.country = o.country
    <3>1. ViewOK(g)
      BY <1>1, <1>2, ViewFunctions
    <3>2. QED
      BY <1>2, <3>1 DEF SetAudioGuidanceOn, ViewOK, View
  <2> HIDE DEF g
  <2>2. ViewOK(SetUseAccessibility(x, g, o.guidance))
    BY <1>1, <2>1, ViewFunctions
  <2>3. QED
    BY <2>1, <2>2 DEF SetUseAccessibility, ViewOK, View
<1>4. SetOptions(x, v, o) = IF o.guidance = is_accessibility_enabled_
                              THEN w ELSE SetUseAccessibility(x, g, o.guidance)
  BY DEF SetOptions
<1> HIDE DEF w, g
<1>5. QED
  BY <1>2, <1>3, <1>4

LEMMA AppInvKeptByOption ==
  ASSUME AppInv, DeviceTypeOK, GetSystemOptionCallback
  PROVE  AppInv'
<1>1. PICK o \in Option :
        /\ Receive("option", o)
        /\ IF o.country = "none"
             THEN UNCHANGED <<local_country, is_accessibility_enabled_, views>>
             ELSE /\ local_country' = o.country
                  /\ is_accessibility_enabled_' = o.guidance
                  /\ TellApps([x \in Apps |-> SetOptions(x, views[x], o)])
        /\ UNCHANGED <<system_language, network_connected>>
  BY DEF GetSystemOptionCallback
<1>2. UNCHANGED app_list_
  BY <1>1 DEF Receive
<1>3. CASE o.country = "none"
  BY <1>1, <1>2, <1>3 DEF AppInv, AppTypeOK, ViewsFollowSettings
<1>4. CASE o.country # "none"
  <2>1. views' = [x \in Apps |-> IF x \in app_list_ THEN SetOptions(x, views[x], o)
                                                    ELSE views[x]]
    BY <1>1, <1>4 DEF TellApps
  <2>2. ASSUME NEW x \in Apps
        PROVE  ViewOK(views'[x]) /\ (x \in app_list_ => Follows(views[x])')
    <3>1. ViewOK(views[x]) /\ (x \in app_list_ => Follows(views[x]))
      BY AppInvParts
    <3>2. CASE x \notin app_list_
      BY <2>1, <3>1, <3>2
    <3>3. CASE x \in app_list_
      <4>1. views'[x] = SetOptions(x, views[x], o)
        BY <2>1, <3>3
      <4>2. QED
        BY <1>1, <1>4, <3>1, <3>3, <4>1, SetOptionsFollows DEF Follows
    <3>4. QED
      BY <3>2, <3>3
  <2>3. views' = [x \in Apps |-> views'[x]]
    BY <2>1
  <2>4. QED
    BY <1>2, <2>2, <2>3
    DEF AppInv, AppTypeOK, ViewOK, ViewsFollowSettings, Follows
<1>5. QED
  BY <1>3, <1>4

LEMMA AppInvKeptByNetwork ==
  ASSUME AppInv, GetNetworkConnectionStatusCallback
  PROVE  AppInv'
<1>1. PICK online \in BOOLEAN :
        /\ Receive("network", online)
        /\ UpdateNetworkStatus(online)
        /\ UNCHANGED <<system_language, local_country, is_accessibility_enabled_>>
  BY DEF GetNetworkConnectionStatusCallback
<1>2. UNCHANGED app_list_
  BY <1>1 DEF Receive
<1>3. CASE ~online
  BY <1>1, <1>2, <1>3 DEF UpdateNetworkStatus, AppInv, AppTypeOK, ViewsFollowSettings
<1>4. CASE online
  <2>1. views' = [x \in Apps |-> IF x \in app_list_ THEN ReloadFailed(views[x])
                                                    ELSE views[x]]
    BY <1>1, <1>4 DEF UpdateNetworkStatus, TellApps
  <2>2. ASSUME NEW x \in Apps
        PROVE  ViewOK(views'[x]) /\ (x \in app_list_ => Follows(views[x])')
    <3>1. ViewOK(views[x]) /\ (x \in app_list_ => Follows(views[x]))
      BY AppInvParts
    <3>2. ViewOK(ReloadFailed(views[x]))
      BY <3>1, ViewFunctions
    <3>3. Follows(views[x]) => Follows(ReloadFailed(views[x]))
      BY <3>1 DEF Follows, ReloadFailed, ViewOK, View
    <3>4. views'[x] = ReloadFailed(views[x]) \/ views'[x] = views[x]
      BY <2>1
    <3>5. Follows(views[x])' <=> Follows(views'[x])
      BY <1>1 DEF Follows
    <3>6. QED
      BY <3>1, <3>2, <3>3, <3>4, <3>5
  <2>3. views' = [x \in Apps |-> views'[x]]
    BY <2>1
  <2>4. QED
    BY <1>2, <2>2, <2>3
    DEF AppInv, AppTypeOK, ViewOK, ViewsFollowSettings, Follows
<1>5. QED
  BY <1>3, <1>4

-----------------------------------------------------------------------------
(* Apps.                                                                   *)

\* The view of one app becomes v; the apps may change.
LEMMA OneViewKeeps ==
  ASSUME AppInv, UNCHANGED device_vars,
         NEW x \in Apps, NEW v, ViewOK(v),
         views' = [views EXCEPT ![x] = v],
         app_list_' \subseteq Apps,
         \A y \in app_list_' : y # x => y \in app_list_,
         x \in app_list_' => Follows(v)
  PROVE  AppInv'
<1>1. /\ views = [y \in Apps |-> views[y]]
      /\ \A y \in Apps : ViewOK(views[y]) /\ (y \in app_list_ => Follows(views[y]))
  BY AppInvParts
<1>2. /\ views' = [y \in Apps |-> views'[y]]
      /\ views'[x] = v
      /\ \A y \in Apps : y # x => views'[y] = views[y]
  BY <1>1
<1>3. ASSUME NEW y \in Apps
      PROVE  ViewOK(views'[y]) /\ (y \in app_list_' => Follows(views'[y]))
  BY <1>1, <1>2
<1>4. \A y \in Apps : Follows(views[y])' <=> Follows(views'[y])
  BY DEF Follows, device_vars
<1>5. QED
  BY <1>2, <1>3, <1>4
  DEF AppInv, AppTypeOK, ViewOK, ViewsFollowSettings, Follows

LEMMA AppInvKeptByApps ==
  ASSUME AppInv, DeviceTypeOK, AppNext
  PROVE  AppInv'
<1>1. PICK x \in Apps :
        \/ OnLaunchUrl(x)
        \/ CloseAppInternal(x)
        \/ Initialize(x)
        \/ RenderProcessCrashed(x)
        \/ LoadErrorPage(x)
        \/ LoadFinished(x)
        \/ LeaveErrorPage(x)
        \/ ShowWindow(x)
  BY DEF AppNext
<1>2. app_list_ \subseteq Apps /\ ViewOK(views[x]) /\ (x \in app_list_ => Follows(views[x]))
  BY AppInvParts
<1>3. CASE OnLaunchUrl(x)
  <2>1. ViewOK(NewPage) /\ ~NewPage.initialized
    BY <1>2, InitViewIsOK DEF NewPage
  <2>2. ViewOK(InitView(NewPage)) /\ Follows(InitView(NewPage))
    BY <2>1, InitViewIsOK
  <2>3. QED
    BY <1>2, <1>3, <2>2, OneViewKeeps DEF OnLaunchUrl
<1>4. CASE CloseAppInternal(x)
  <2>1. ViewOK(NewPage)
    BY <1>2, InitViewIsOK
  <2>2. QED
    BY <1>2, <1>4, <2>1, OneViewKeeps DEF CloseAppInternal
<1>5. ASSUME NEW v, UpdateView(x, v), ViewOK(v), Follows(v)
      PROVE  AppInv'
  BY <1>2, <1>5, OneViewKeeps DEF UpdateView
<1>6. CASE Initialize(x)
  <2> DEFINE v == [views[x] EXCEPT !.initialized = TRUE, !.locale = system_language,
                                   !.country = local_country]
  <2>1. UpdateView(x, v) /\ x \in app_list_
    BY <1>6 DEF Initialize, UpdateView
  <2>2. ViewOK(v) /\ Follows(v)
    BY <1>2, <2>1 DEF DeviceTypeOK, ViewOK, View, ErrorPageIsKnown, Follows
  <2>3. QED
    BY <1>5, <2>1, <2>2
<1>7. CASE RenderProcessCrashed(x)
  <2> DEFINE u == [views[x] EXCEPT !.initialized = FALSE]
  <2>1. UpdateView(x, InitView(u))
    BY <1>7 DEF RenderProcessCrashed
  <2>2. ViewOK(u) /\ ~u.initialized
    BY <1>2 DEF ViewOK, View, ErrorPageIsKnown
  <2> HIDE DEF u
  <2>3. ViewOK(InitView(u)) /\ Follows(InitView(u))
    BY <2>2, InitViewIsOK
  <2>4. QED
    BY <1>5, <2>1, <2>3
<1>8. CASE LoadErrorPage(x)
  <2> DEFINE v == [views[x] EXCEPT !.is_load_error_page_start = TRUE, !.loads = "error"]
  <2>1. UpdateView(x, v) /\ x \in app_list_
    BY <1>8 DEF LoadErrorPage, UpdateView
  <2>2. ViewOK(v) /\ Follows(v)
    BY <1>2, <2>1 DEF ViewOK, View, ErrorPageIsKnown, Follows
  <2>3. QED
    BY <1>5, <2>1, <2>2
<1>9. CASE LoadFinished(x)
  <2> DEFINE v == [views[x] EXCEPT !.is_load_error_page_finish = views[x].loads = "error"]
  <2>1. UpdateView(x, v) /\ x \in app_list_
    BY <1>9 DEF LoadFinished, UpdateView
  <2>2. ViewOK(v) /\ Follows(v)
    BY <1>2, <2>1 DEF ViewOK, View, ErrorPageIsKnown, Follows
  <2>3. QED
    BY <1>5, <2>1, <2>2
<1>10. CASE LeaveErrorPage(x)
  <2> DEFINE v == [views[x] EXCEPT !.loads = "app"]
  <2>1. UpdateView(x, v) /\ x \in app_list_
    BY <1>10 DEF LeaveErrorPage, UpdateView
  <2>2. ViewOK(v) /\ Follows(v)
    BY <1>2, <2>1 DEF ViewOK, View, ErrorPageIsKnown, Follows
  <2>3. QED
    BY <1>5, <2>1, <2>2
<1>11. CASE ShowWindow(x)
  <2> DEFINE v == SetUseAccessibility(x, views[x], is_accessibility_enabled_)
  <2>1. UpdateView(x, v) /\ x \in app_list_
    BY <1>11 DEF ShowWindow, UpdateView
  <2>2. ViewOK(v)
    BY <1>2, ViewFunctions DEF DeviceTypeOK
  <2>3. Follows(v)
    BY <1>2, <2>1 DEF SetUseAccessibility, ViewOK, View, Follows
  <2>4. QED
    BY <1>5, <2>1, <2>2, <2>3
<1>12. QED
  BY <1>1, <1>3, <1>4, <1>6, <1>7, <1>8, <1>9, <1>10, <1>11

-----------------------------------------------------------------------------
(* The theorems.                                                           *)

LEMMA IInvParts ==
  IInv <=> BusTypeOK /\ DeviceTypeOK /\ AppInv /\ MessagesAreCurrent
  BY TypeParts DEF IInv, AppInv

\* WAM knows of no service yet, and none knows of WAM.
LEMMA InitImpliesIInv ==
  ASSUME Init
  PROVE  IInv
<1> USE DEF Init
<1>1. \A s \in Subscriptions : answers[s] = <<>> /\ answers[s] \in Seq(AnswerType[s])
  BY EmptySeq
<1>2. \A v \in Services :
        /\ statuses[v] = <<IF v \in up THEN "connected" ELSE "disconnected">>
        /\ statuses[v] \in Seq(ServerStatuses)
        /\ statuses[v] # <<>>
        /\ LastOf(statuses[v]) = "connected" <=> v \in up
  BY DEF ServerStatuses, LastOf
<1>3. BusTypeOK
  <2>1. statuses = [v \in Services |-> statuses[v]]
    OBVIOUS
  <2>2. QED
    BY <1>1, <1>2, <2>1 DEF BusTypeOK
<1>4. DeviceTypeOK
  BY DEF DeviceTypeOK, MaybeLanguage, MaybeCountry
<1>5. AppInv
  <2>1. ViewOK(NewPage)
    BY DEF ViewOK, View, ErrorPageIsKnown, NewPage, MaybeLanguage, MaybeCountry
  <2>2. QED
    BY <2>1 DEF AppInv, AppTypeOK, ViewsFollowSettings
<1>6. LastStatusIsCurrent
  BY <1>2 DEF LastStatusIsCurrent
<1>7. KnownServicesAreSubscribed
  BY <1>2, ServicesOfSubscriptions DEF KnownServicesAreSubscribed
<1>8. ClientsOfRunningServices /\ LastAnswerIsCurrent
  BY DEF ClientsOfRunningServices, LastAnswerIsCurrent
<1>9. QED
  BY <1>3, <1>4, <1>5, <1>6, <1>7, <1>8, IInvParts DEF MessagesAreCurrent

\* A step that changes no setting and no view keeps what is said of them.
LEMMA ViewsUntouched ==
  ASSUME DeviceTypeOK, AppInv, UNCHANGED <<device_vars, app_list_, views>>
  PROVE  DeviceTypeOK' /\ AppInv'
<1>1. /\ system_language' = system_language /\ local_country' = local_country
      /\ is_accessibility_enabled_' = is_accessibility_enabled_
      /\ network_connected' = network_connected
      /\ app_list_' = app_list_ /\ views' = views
  BY DEF device_vars
<1>2. DeviceTypeOK'
  BY <1>1 DEF DeviceTypeOK
<1>3. AppTypeOK'
  BY <1>1, Zenon DEF AppInv, AppTypeOK
<1>4. ViewsFollowSettings'
  BY <1>1, Zenon DEF AppInv, ViewsFollowSettings
<1>5. QED
  BY <1>2, <1>3, <1>4 DEF AppInv

\* No step of a service, of a callback or of an app breaks the invariant.
LEMMA IInvIsInductive ==
  ASSUME IInv, [Next]_vars
  PROVE  IInv'
<1>1. BusTypeOK /\ DeviceTypeOK /\ AppInv /\ MessagesAreCurrent
  BY IInvParts
<1>2. SUFFICES BusTypeOK' /\ DeviceTypeOK' /\ AppInv' /\ MessagesAreCurrent'
  BY DEF IInv, TypeOK, BusTypeOK, DeviceTypeOK, AppTypeOK, ViewOK, AppInv
<1>3. CASE ServiceNext
  <2>1. BusTypeOK' /\ MessagesAreCurrent'
    BY <1>1, <1>3, ServiceNextKeeps, Zenon
  <2>2. UNCHANGED <<device_vars, app_list_, views>>
    BY <1>3, Zenon
    DEF ServiceNext, ServiceStarts, ServiceStops, ChangeLanguage, ChangeOption,
        ChangeNetwork, Publish
  <2>3. QED
    BY <1>1, <2>1, <2>2, ViewsUntouched
<1>4. CASE CallbackNext
  <2>1. ASSUME NEW v \in Services, ServerStatusCallback(v)
        PROVE  BusTypeOK' /\ DeviceTypeOK' /\ AppInv' /\ MessagesAreCurrent'
    <3>1. BusTypeOK' /\ MessagesAreCurrent'
      BY <1>1, <2>1, ServerStatusCallbackKeeps
    <3>2. UNCHANGED <<device_vars, app_list_, views>>
      BY <2>1 DEF ServerStatusCallback
    <3>3. QED
      BY <1>1, <3>1, <3>2, ViewsUntouched
  <2>2. CASE GetSystemLocalePreferencesCallback
    BY <1>1, <2>2, LocaleCallbackKeeps, AppInvKeptByLocale
  <2>3. CASE GetSystemOptionCallback
    BY <1>1, <2>3, OptionCallbackKeeps, AppInvKeptByOption
  <2>4. CASE GetNetworkConnectionStatusCallback
    BY <1>1, <2>4, NetworkCallbackKeeps, AppInvKeptByNetwork
  <2>5. QED
    BY <1>4, <2>1, <2>2, <2>3, <2>4 DEF CallbackNext
<1>5. CASE AppNext
  <2>1. AppInv'
    BY <1>1, <1>5, AppInvKeptByApps
  <2>2. UNCHANGED <<service_vars, device_vars>>
    BY <1>5 DEF AppNext, OnLaunchUrl, CloseAppInternal, Initialize,
                RenderProcessCrashed, LoadErrorPage, LoadFinished, LeaveErrorPage,
                ShowWindow, UpdateView
  <2>3. QED
    BY <1>1, <2>1, <2>2
    DEF service_vars, device_vars, BusTypeOK, DeviceTypeOK, MessagesAreCurrent,
        LastStatusIsCurrent, KnownServicesAreSubscribed, ClientsOfRunningServices,
        LastAnswerIsCurrent, Held, Binding, HasLanguage, HasOption, HasNetwork, Answer
<1>6. CASE UNCHANGED vars
  BY <1>1, <1>6
  DEF vars, service_vars, device_vars, BusTypeOK, DeviceTypeOK, AppInv, AppTypeOK,
      ViewsFollowSettings, MessagesAreCurrent, LastStatusIsCurrent,
      KnownServicesAreSubscribed, ClientsOfRunningServices, LastAnswerIsCurrent, Held,
      Binding, HasLanguage, HasOption, HasNetwork, Answer
<1>7. QED
  BY <1>3, <1>4, <1>5, <1>6 DEF Next

LEMMA IInvImpliesSettledIsCurrent ==
  ASSUME IInv
  PROVE  SettledIsCurrent
<1>1. ASSUME NEW s \in Subscriptions, Settled(s)
      PROVE  Held(s)
  BY <1>1 DEF IInv, MessagesAreCurrent, KnownServicesAreSubscribed,
              LastAnswerIsCurrent, Settled
<1>2. {"locale", "option", "network"} \subseteq Subscriptions
  BY DEF Subscriptions
<1>3. QED
  BY <1>1, <1>2 DEF SettledIsCurrent, Held

\* The invariant of the specification, from which the three theorems follow.
THEOREM SettingsInvariant == Spec => []IInv
<1>1. Init => IInv
  BY InitImpliesIInv
<1>2. IInv /\ [Next]_vars => IInv'
  BY IInvIsInductive
<1>3. QED
  BY <1>1, <1>2, PTL DEF Spec

\* The variables keep their types, and the page of an error is known to be one
\* by is_load_error_page_start_.
THEOREM TypeCorrectness == Spec => []TypeOK
<1>1. IInv => TypeOK
  BY DEF IInv
<1>2. QED
  BY <1>1, SettingsInvariant, PTL

\* Every view of a running app has the language, the country and the audio
\* guidance that WAM holds.
THEOREM ViewsHaveSettings == Spec => []ViewsFollowSettings
<1>1. IInv => ViewsFollowSettings
  BY DEF IInv
<1>2. QED
  BY <1>1, SettingsInvariant, PTL

\* Once no message of a running service is on its way, WAM holds its values.
THEOREM SettledSettingsAreCurrent == Spec => []SettledIsCurrent
<1>1. IInv => SettledIsCurrent
  BY IInvImpliesSettledIsCurrent
<1>2. QED
  BY <1>1, SettingsInvariant, PTL

=============================================================================
