---------------------------- MODULE Login_proofs ----------------------------
(***************************************************************************)
(* Proofs about the login, for every limit on retries, heartbeats and      *)
(* history pings.  The invariant is a predicate Good on the record login.  *)
(* Most statuses are calm: they are neither the established login nor the  *)
(* attempt past its connect, and for these Good asks for no more than Base.*)
(* Each method has a lemma, and a handler is proved from its methods'.     *)
(***************************************************************************)
EXTENDS Login, TLAPS

LoginType == [stat : Status, told : Status \cup {"none", "RELOGIN_SUCCESS"},
              succ : BOOLEAN, fails : Nat, pingCount : 0 .. PingMax,
              ip : BOOLEAN, ports : BOOLEAN, sock : Sock, lbs : BOOLEAN,
              loginTimer : BOOLEAN, pingTimer : BOOLEAN,
              waitTimer : BOOLEAN, lbsTimer : BOOLEAN]

Bounded(l) == /\ l \in LoginType
              /\ l.fails <= MaxRetime
              /\ l.pingTimer => l.fails = 0

\* Before anything is done there is nothing that could deliver an event.
Fresh(l) == /\ l.sock = "none" /\ ~ l.lbs /\ l.fails = 0 /\ ~ l.ip
            /\ ~ (l.loginTimer \/ l.pingTimer \/ l.waitTimer \/ l.lbsTimer)

Base(l) == Bounded(l) /\ (l.told = "none" => Fresh(l))

Calm == Status \ {"LOGIN_SUCCESS", "EXCHANGE_PASSWORD"}

Whole(l) == l.told # "none" /\ l.stat = "LOGIN_SUCCESS" =>
              /\ l.sock = "in" /\ l.pingTimer
              /\ l.fails = 0
              /\ l.told \in Successes

Guarded(l) == l.told # "none" /\ l.stat = "EXCHANGE_PASSWORD" => l.loginTimer

Good(l) == Base(l) /\ Whole(l) /\ Guarded(l)

\* No ping is under way before the first login.
Inv == Good(login) /\ pings \in 0 .. Histories /\ (login.told = "none" => pings = 0)

-----------------------------------------------------------------------------
(* cancel stops the attempt and leaves the count of retries alone.         *)
LEMMA CancelLemma ==
  ASSUME NEW l, Bounded(l)
  PROVE  LET q == Cancel(l)
         IN  /\ Bounded(q) /\ q.stat = "LINK_INIT" /\ q.told = l.told
             /\ q.fails = l.fails /\ q.succ = l.succ /\ ~ q.loginTimer
             /\ q.ip = l.ip /\ q.pingTimer = l.pingTimer /\ q.waitTimer = l.waitTimer
             /\ l.stat # "LOGIN_SUCCESS" =>
                  q.sock = "none" /\ ~ q.lbs /\ ~ q.lbsTimer
             /\ Fresh(l) => Fresh(q)
<1> DEFINE c == [l EXCEPT !.pingCount = 0, !.loginTimer = FALSE, !.stat = "LINK_INIT"]
           d == [c EXCEPT !.sock = "none", !.lbs = FALSE, !.lbsTimer = FALSE]
<1>1. "LINK_INIT" \in Status /\ "none" \in Sock /\ 0 \in 0 .. PingMax
  BY LoginAssumption DEF Status, Sock
<1>2. l \in LoginType /\ l.fails <= MaxRetime /\ (l.pingTimer => l.fails = 0)
  BY DEF Bounded
<1>3. /\ c \in LoginType /\ c.stat = "LINK_INIT" /\ c.told = l.told
      /\ c.fails = l.fails /\ c.succ = l.succ /\ c.loginTimer = FALSE
      /\ c.ip = l.ip /\ c.pingTimer = l.pingTimer /\ c.waitTimer = l.waitTimer
      /\ c.sock = l.sock /\ c.lbs = l.lbs /\ c.lbsTimer = l.lbsTimer
  BY <1>1, <1>2 DEF LoginType
<1> HIDE DEF c
<1>4. /\ d \in LoginType /\ d.stat = "LINK_INIT" /\ d.told = l.told
      /\ d.fails = l.fails /\ d.succ = l.succ /\ d.loginTimer = FALSE
      /\ d.ip = l.ip /\ d.pingTimer = l.pingTimer /\ d.waitTimer = l.waitTimer
      /\ d.sock = "none" /\ d.lbs = FALSE /\ d.lbsTimer = FALSE
  BY <1>1, <1>3 DEF LoginType
<1> HIDE DEF d
<1>5. Cancel(l) = IF l.stat = "LOGIN_SUCCESS" THEN c ELSE d
  BY DEF Cancel, c, d
<1>6. CASE l.stat = "LOGIN_SUCCESS"
  BY <1>2, <1>3, <1>5, <1>6 DEF Bounded, Fresh
<1>7. CASE l.stat # "LOGIN_SUCCESS"
  BY <1>2, <1>4, <1>5, <1>7 DEF Bounded, Fresh
<1> QED BY <1>6, <1>7

(* reLogin(true) adds one to the count, which was below its limit.         *)
LEMMA ReLoginLemma ==
  ASSUME NEW l, Bounded(l), l.fails < MaxRetime
  PROVE  LET q == ReLogin(l)
         IN  /\ Bounded(q) /\ q.stat = "LINK_INIT" /\ q.told = l.told
<1> DEFINE c == Cancel(l)
<1>1. Bounded(c) /\ c.stat = "LINK_INIT" /\ c.told = l.told /\ c.fails = l.fails
  BY CancelLemma
<1> HIDE DEF c
<1>2. ReLogin(l) = [c EXCEPT !.ip = FALSE, !.ports = FALSE, !.fails = @ + 1,
                             !.waitTimer = TRUE, !.pingTimer = FALSE]
  BY DEF ReLogin, c
<1> DEFINE d == [c EXCEPT !.ip = FALSE, !.ports = FALSE, !.fails = c.fails + 1,
                          !.waitTimer = TRUE, !.pingTimer = FALSE]
<1>3. c \in LoginType /\ c.fails \in Nat /\ c.fails + 1 \in Nat
      /\ c.fails + 1 <= MaxRetime
  BY <1>1, LoginAssumption DEF Bounded, LoginType
<1>4. d \in LoginType /\ d.stat = c.stat /\ d.told = c.told
      /\ d.fails = c.fails + 1 /\ d.pingTimer = FALSE
  BY <1>3 DEF LoginType
<1>5. ReLogin(l) = d
  BY <1>2
<1> HIDE DEF d
<1> QED BY <1>1, <1>3, <1>4, <1>5 DEF Bounded

(* A report keeps everything but what was told and the count.              *)
LEMMA ReportLemma ==
  ASSUME NEW l, NEW s \in Status, Bounded(l), l.told # "none" \/ l.fails = 0
  PROVE  LET q == Report(l, s)
         IN  /\ Bounded(q) /\ q.stat = l.stat /\ q.told # "none"
             /\ q.loginTimer = l.loginTimer /\ q.sock = l.sock
             /\ q.pingTimer = l.pingTimer /\ q.lbs = l.lbs /\ q.lbsTimer = l.lbsTimer
             /\ s = "LOGIN_SUCCESS" => q.fails = 0 /\ q.told \in Successes
             /\ l.fails = 0 => q.told = s /\ q.fails = 0
<1>1. l \in LoginType /\ l.fails \in Nat /\ l.fails <= MaxRetime
      /\ (l.pingTimer => l.fails = 0)
  BY DEF Bounded, LoginType
<1>2. s # "none" /\ "LOGIN_SUCCESS" \in Successes /\ "RELOGIN_SUCCESS" \in Successes
  BY DEF Status, NetErrors, Final, Others, Successes
<1>3. CASE l.fails = 0
  <2> DEFINE d == [l EXCEPT !.told = s]
  <2>1. d \in LoginType /\ d.told = s /\ d.fails = 0 /\ d.stat = l.stat
        /\ d.loginTimer = l.loginTimer /\ d.sock = l.sock
        /\ d.pingTimer = l.pingTimer /\ d.lbs = l.lbs /\ d.lbsTimer = l.lbsTimer
    BY <1>1, <1>3 DEF LoginType
  <2>2. Report(l, s) = d
    BY <1>3 DEF Report
  <2> HIDE DEF d
  <2> QED BY <1>1, <1>2, <1>3, <2>1, <2>2 DEF Bounded
<1>4. CASE l.fails # 0 /\ s = "LOGIN_SUCCESS"
  <2> DEFINE d == [l EXCEPT !.told = "RELOGIN_SUCCESS", !.fails = 0]
  <2>1. d \in LoginType /\ d.told = "RELOGIN_SUCCESS" /\ d.fails = 0 /\ d.stat = l.stat
        /\ d.loginTimer = l.loginTimer /\ d.sock = l.sock
        /\ d.pingTimer = l.pingTimer /\ d.lbs = l.lbs /\ d.lbsTimer = l.lbsTimer
    BY <1>1 DEF LoginType
  <2>2. Report(l, s) = d
    BY <1>4 DEF Report
  <2>3. 0 <= MaxRetime
    BY LoginAssumption
  <2> HIDE DEF d
  <2> QED BY <1>2, <1>4, <2>1, <2>2, <2>3 DEF Bounded
<1>5. CASE l.fails # 0 /\ s # "LOGIN_SUCCESS"
  BY <1>5 DEF Report
<1> QED BY <1>3, <1>4, <1>5

(* notifyStatus, for all statuses but the established login, leaves a base *)
(* state that has been reported on; all but the key exchange leave a calm  *)
(* one.                                                                    *)
LEMMA NotifyLemma ==
  ASSUME NEW l, NEW s \in Status \ {"LINK_INIT", "LOGIN_SUCCESS"}, Bounded(l),
         l.told # "none" \/ (l.fails = 0 /\ s \notin NetErrors)
  PROVE  LET q == Notify(l, s)
         IN  /\ Bounded(q) /\ q.told # "none" /\ q.stat # "LOGIN_SUCCESS"
             /\ s # "EXCHANGE_PASSWORD" => q.stat # "EXCHANGE_PASSWORD"
             /\ s \in Others => /\ q.stat = s /\ q.loginTimer = l.loginTimer
             /\ s \in Final => /\ q.stat = "LINK_INIT" /\ ~ q.loginTimer
                               /\ q.sock = "none" /\ ~ q.lbs /\ ~ q.lbsTimer
                               /\ q.pingTimer = l.pingTimer
                               /\ l.fails = 0 => q.told = s /\ q.fails = 0
<1> DEFINE n == [l EXCEPT !.stat = s]
<1>1. Bounded(n) /\ n.stat = s /\ n.told = l.told /\ n.fails = l.fails
      /\ n.loginTimer = l.loginTimer /\ n.pingTimer = l.pingTimer
  BY DEF Bounded, LoginType
<1>2. CASE s \in NetErrors
  <2>1. s \notin Final /\ s \notin Others /\ l.told # "none"
    BY <1>2 DEF NetErrors, Final, Others
  <2>2. CASE MayRetry(n)
    <3>1. n.fails < MaxRetime
      BY <2>2 DEF MayRetry
    <3>2. Notify(l, s) = ReLogin(n)
      BY <1>2, <2>2 DEF Notify
    <3> HIDE DEF n
    <3> QED BY <1>1, <2>1, <3>1, <3>2, ReLoginLemma
  <2>3. CASE ~ MayRetry(n)
    <3> DEFINE m == [n EXCEPT !.told = s]
    <3>1. Bounded(m) /\ m.told = s
      BY <1>1 DEF Bounded, LoginType
    <3>2. Notify(l, s) = Cancel(m)
      BY <1>2, <2>3 DEF Notify
    <3>3. s # "none"
      BY DEF Status, NetErrors, Final, Others
    <3> HIDE DEF m, n
    <3> QED BY <2>1, <3>1, <3>2, <3>3, CancelLemma
  <2> QED BY <2>2, <2>3
<1>3. CASE s \in Final
  <2> DEFINE c == Cancel(n)
  <2>1. s \notin NetErrors /\ s \notin Others
    BY <1>3 DEF NetErrors, Final, Others
  <2>2. Notify(l, s) = Report(c, s)
    BY <1>3, <2>1 DEF Notify
  <2> HIDE DEF n
  <2>3. Bounded(c) /\ c.stat = "LINK_INIT" /\ c.told = l.told /\ c.fails = l.fails
        /\ ~ c.loginTimer /\ c.sock = "none" /\ ~ c.lbs /\ ~ c.lbsTimer
        /\ c.pingTimer = l.pingTimer
    BY <1>1, CancelLemma
  <2> HIDE DEF c
  <2> QED BY <2>1, <2>2, <2>3, ReportLemma
<1>4. CASE s \notin NetErrors /\ s \notin Final
  <2>1. s # "LINK_INIT"
    OBVIOUS
  <2>2. Notify(l, s) = Report(n, s)
    BY <1>4 DEF Notify
  <2> HIDE DEF n
  <2> QED BY <1>1, <1>4, <2>2, ReportLemma
<1> QED BY <1>2, <1>3, <1>4

(* A base state whose status is calm is good.                              *)
LEMMA CalmIsGood ==
  ASSUME NEW l, Bounded(l), l.told # "none",
         l.stat # "LOGIN_SUCCESS", l.stat # "EXCHANGE_PASSWORD"
  PROVE  Good(l)
BY DEF Good, Base, Whole, Guarded

(* The start of a lookup.                                                  *)
LEMMA LbsStartLemma ==
  ASSUME NEW l, Bounded(l), l.told # "none" \/ l.fails = 0
  PROVE  Good(LbsStart(l)) /\ LbsStart(l).told # "none"
<1> DEFINE d == [l EXCEPT !.lbs = TRUE, !.lbsTimer = TRUE]
<1>1. Bounded(d) /\ d.told = l.told /\ d.fails = l.fails
  BY DEF Bounded, LoginType
<1>2. "LINK_LBS" \in Status \ {"LINK_INIT", "LOGIN_SUCCESS"} /\ "LINK_LBS" \notin NetErrors
  BY DEF Status, NetErrors, Others
<1>3. LbsStart(l) = Notify(d, "LINK_LBS")
  BY DEF LbsStart
<1> HIDE DEF d
<1>4. Bounded(LbsStart(l)) /\ LbsStart(l).told # "none"
      /\ LbsStart(l).stat # "LOGIN_SUCCESS" /\ LbsStart(l).stat # "EXCHANGE_PASSWORD"
  BY <1>1, <1>2, <1>3, NotifyLemma
<1> QED BY <1>4, CalmIsGood

(* The loss of the connection, reported on.                                *)
LEMMA NetErrorLemma ==
  ASSUME NEW l, NEW s \in NetErrors, Bounded(l), l.told # "none"
  PROVE  Good(Notify(l, s)) /\ Notify(l, s).told # "none"
<1>1. s \in Status \ {"LINK_INIT", "LOGIN_SUCCESS"} /\ s # "EXCHANGE_PASSWORD"
  BY DEF Status, NetErrors
<1>2. Bounded(Notify(l, s)) /\ Notify(l, s).told # "none"
      /\ Notify(l, s).stat # "LOGIN_SUCCESS" /\ Notify(l, s).stat # "EXCHANGE_PASSWORD"
  BY <1>1, NotifyLemma
<1> QED BY <1>2, CalmIsGood

(* realLogin, whether the connect goes on or fails at once.                *)
LEMMA RealLoginLemma ==
  ASSUME NEW l, Good(l), l.told # "none", NEW q \in RealLogin(l)
  PROVE  Good(q) /\ q.told # "none"
<1>1. Bounded(l)
  BY DEF Good, Base
<1>2. "LINK_NET_ERROR" \in NetErrors /\ "LBS_NET_ERROR" \in NetErrors
  BY DEF NetErrors
<1>3. CASE l.stat \in {"EXCHANGE_PASSWORD", "LOGIN_SUCCESS"}
  BY <1>3 DEF RealLogin
<1>4. CASE l.stat \notin {"EXCHANGE_PASSWORD", "LOGIN_SUCCESS"} /\ ~ l.ip
  <2>1. q = LbsStart(l)
    BY <1>4 DEF RealLogin
  <2> QED BY <1>1, <2>1, LbsStartLemma
<1>5. CASE l.stat \notin {"EXCHANGE_PASSWORD", "LOGIN_SUCCESS"} /\ l.ip /\ ~ l.ports
  <2>1. q = Notify(l, "LBS_NET_ERROR")
    BY <1>5 DEF RealLogin
  <2> QED BY <1>1, <1>2, <2>1, NetErrorLemma
<1>6. CASE l.stat \notin {"EXCHANGE_PASSWORD", "LOGIN_SUCCESS"} /\ l.ip /\ l.ports
  <2> DEFINE c == [l EXCEPT !.sock = "connecting"]
  <2>1. q = c \/ q = Notify(c, "LINK_NET_ERROR")
    BY <1>6 DEF RealLogin
  <2>2. Bounded(c) /\ c.told = l.told /\ c.stat = l.stat
    BY <1>1 DEF Bounded, LoginType, Sock
  <2> HIDE DEF c
  <2>3. Good(c)
    BY <1>6, <2>2, CalmIsGood
  <2> QED BY <1>2, <2>1, <2>2, <2>3, NetErrorLemma
<1> QED BY <1>3, <1>4, <1>5, <1>6

(* doLbs.                                                                  *)
LEMMA DoLbsLemma ==
  ASSUME NEW l, Bounded(l), l.told # "none", NEW ports \in BOOLEAN,
         NEW q \in DoLbs(l, ports)
  PROVE  Good(q) /\ q.told # "none"
<1> DEFINE d == [l EXCEPT !.ip = TRUE, !.ports = ports]
           n == Notify(d, "LINK_AUTH")
<1>1. Bounded(d) /\ d.told = l.told
  BY DEF Bounded, LoginType
<1>2. "LINK_AUTH" \in Status \ {"LINK_INIT", "LOGIN_SUCCESS"}
  BY DEF Status, NetErrors, Others
<1>3. q \in RealLogin(n)
  BY DEF DoLbs
<1> HIDE DEF d
<1>4. Bounded(n) /\ n.told # "none" /\ n.stat # "LOGIN_SUCCESS"
      /\ n.stat # "EXCHANGE_PASSWORD"
  BY <1>1, <1>2, NotifyLemma
<1> HIDE DEF n
<1>5. Good(n)
  BY <1>4, CalmIsGood
<1> QED BY <1>3, <1>4, <1>5, RealLoginLemma

(* A logout, whatever the state before it.                                 *)
LEMMA LoggedOutLemma ==
  ASSUME NEW l, Bounded(l)
  PROVE  LET q == LoggedOut(l)
         IN  /\ Bounded(q) /\ q.stat = "LINK_INIT" /\ q.told = "LOGOUT"
             /\ q.sock = "none" /\ ~ q.lbs /\ ~ q.lbsTimer
             /\ ~ q.loginTimer /\ ~ q.pingTimer /\ q.fails = 0
<1> DEFINE c == Cancel(l)
           d == [c EXCEPT !.sock = "none", !.fails = 0, !.pingTimer = FALSE]
<1>1. Bounded(c)
  BY CancelLemma
<1>2. "none" \in Sock /\ "LOGOUT" \in Final
      /\ "LOGOUT" \in Status \ {"LINK_INIT", "LOGIN_SUCCESS"} /\ "LOGOUT" \notin NetErrors
  BY DEF Sock, Final, Status, NetErrors
<1>3. LoggedOut(l) = Notify(d, "LOGOUT")
  BY DEF LoggedOut
<1> HIDE DEF c
<1>4. Bounded(d) /\ d.fails = 0 /\ d.pingTimer = FALSE
  <2>1. c \in LoginType /\ 0 <= MaxRetime
    BY <1>1, LoginAssumption DEF Bounded
  <2>2. d \in LoginType /\ d.fails = 0 /\ d.pingTimer = FALSE
    BY <2>1, <1>2 DEF LoginType
  <2> QED BY <2>1, <2>2 DEF Bounded
<1> HIDE DEF d
<1> QED BY <1>2, <1>3, <1>4, NotifyLemma

-----------------------------------------------------------------------------
(* The invariant holds initially, whatever __stat holds.                   *)
LEMMA InitLemma == Init => Inv
<1> SUFFICES ASSUME Init PROVE Inv
  OBVIOUS
<1>1. PICK s \in Status :
        login = [stat |-> s, told |-> "none", succ |-> FALSE, fails |-> 0,
                 pingCount |-> 0, ip |-> FALSE, ports |-> FALSE, sock |-> "none",
                 lbs |-> FALSE, loginTimer |-> FALSE, pingTimer |-> FALSE,
                 waitTimer |-> FALSE, lbsTimer |-> FALSE]
  BY DEF Init
<1>2. "none" \in Sock /\ 0 \in 0 .. PingMax /\ 0 <= MaxRetime /\ 0 \in 0 .. Histories
  BY LoginAssumption DEF Sock
<1>3. login \in LoginType
  BY <1>1, <1>2 DEF LoginType
<1>4. Bounded(login) /\ Fresh(login) /\ login.told = "none"
  BY <1>1, <1>2, <1>3 DEF Bounded, Fresh
<1> QED BY <1>2, <1>4 DEF Inv, Good, Base, Whole, Guarded, Init

(* The user's steps.                                                       *)
LEMMA UserStep == Inv /\ User => Inv'
<1> SUFFICES ASSUME Inv, User PROVE Inv'
  OBVIOUS
<1> USE DEF Inv
<1>1. Good(login) /\ Bounded(login) /\ login.fails \in Nat
  BY DEF Good, Base, Bounded, LoginType
<1>2. CASE DoLogin
  <2>1. CASE login.stat = "LOGIN_SUCCESS"
    <3>1. login' = [login EXCEPT !.succ = FALSE] /\ pings' = pings
      BY <1>2, <2>1 DEF DoLogin
    <3>2. Bounded(login') /\ login'.told = login.told /\ login'.stat = login.stat
          /\ login'.sock = login.sock /\ login'.pingTimer = login.pingTimer
          /\ login'.fails = login.fails
      BY <1>1, <3>1 DEF Bounded, LoginType
    <3>3. Fresh(login) => Fresh(login')
      BY <1>1, <3>1 DEF Fresh, Bounded, LoginType
    <3> QED BY <1>1, <2>1, <3>1, <3>2, <3>3 DEF Good, Base, Whole, Guarded
  <2>2. CASE login.stat # "LOGIN_SUCCESS"
    <3> DEFINE c == Cancel(login)
               d == [c EXCEPT !.succ = FALSE, !.fails = 0, !.ip = FALSE, !.ports = FALSE]
    <3>1. Bounded(c)
      BY <1>1, CancelLemma
    <3>2. login' = LbsStart(d) /\ pings' = pings
      BY <1>2, <2>2 DEF DoLogin
    <3> HIDE DEF c
    <3>3. Bounded(d) /\ d.fails = 0
      <4>1. c \in LoginType /\ 0 <= MaxRetime
        BY <3>1, LoginAssumption DEF Bounded
      <4>2. d \in LoginType /\ d.fails = 0
        BY <4>1 DEF LoginType
      <4> QED BY <4>1, <4>2 DEF Bounded
    <3> HIDE DEF d
    <3>4. Good(login') /\ login'.told # "none"
      BY <3>2, <3>3, LbsStartLemma
    <3> QED BY <3>2, <3>4
  <2> QED BY <2>1, <2>2
<1>3. CASE CancelLogin
  <2>1. login' = Cancel(login) /\ pings' = pings
    BY <1>3 DEF CancelLogin
  <2>2. Bounded(login') /\ login'.stat = "LINK_INIT" /\ login'.told = login.told
        /\ (Fresh(login) => Fresh(login'))
    BY <1>1, <2>1, CancelLemma
  <2> QED BY <1>1, <2>1, <2>2 DEF Good, Base, Whole, Guarded
<1>4. CASE DoLogout
  <2>1. login' = LoggedOut(login) /\ pings' = pings
    BY <1>4 DEF DoLogout
  <2>2. Bounded(login') /\ login'.stat = "LINK_INIT" /\ login'.told = "LOGOUT"
    BY <1>1, <2>1, LoggedOutLemma
  <2>3. Good(login')
    BY <2>2, CalmIsGood
  <2> QED BY <2>1, <2>2, <2>3
<1> QED BY <1>2, <1>3, <1>4 DEF User

(* Any event presupposes something that can deliver it.                    *)
LEMMA EventsAfterStart ==
  ASSUME Inv, \/ login.lbs \/ login.lbsTimer \/ login.sock # "none" \/ pings > 0
              \/ login.pingTimer \/ login.loginTimer \/ login.waitTimer
  PROVE  login.told # "none"
BY DEF Inv, Good, Base, Fresh

(* The end of a lookup disturbs nothing.                                   *)
LEMMA LbsDoneLemma ==
  ASSUME NEW l, Good(l), l.told # "none"
  PROVE  Good(LbsDone(l)) /\ LbsDone(l).told # "none"
<1>1. Bounded(l)
  BY DEF Good, Base
<1>2. Bounded(LbsDone(l)) /\ LbsDone(l).told = l.told /\ LbsDone(l).stat = l.stat
      /\ LbsDone(l).sock = l.sock /\ LbsDone(l).pingTimer = l.pingTimer
      /\ LbsDone(l).fails = l.fails /\ LbsDone(l).loginTimer = l.loginTimer
  BY <1>1 DEF LbsDone, Bounded, LoginType
<1> QED BY <1>2 DEF Good, Base, Whole, Guarded

(* The steps of the lookup and of the history pings.                       *)
LEMMA LbsStep == Inv /\ Lbs => Inv'
<1> SUFFICES ASSUME Inv, Lbs PROVE Inv'
  OBVIOUS
<1>1. Good(login) /\ Bounded(login) /\ pings \in 0 .. Histories
  BY DEF Inv, Good, Base
<1>2. login.told # "none"
  BY EventsAfterStart
     DEF Lbs, LbsRes, LbsRefused, LbsShutDown, LbsLost, LbsTimeout, HistoryAnswers,
         HistorySilent
<1> SUFFICES Good(login') /\ login'.told # "none" /\ pings' \in 0 .. Histories
  BY DEF Inv
<1>3. ASSUME NEW ports \in BOOLEAN, LbsRes(ports)
      PROVE  Good(login') /\ login'.told # "none" /\ pings' \in 0 .. Histories
  <2>1. PICK l \in DoLbs(login, ports) : login' = LbsDone(l)
    BY <1>3 DEF LbsRes
  <2>2. Good(l) /\ l.told # "none"
    BY <1>1, <1>2, DoLbsLemma
  <2> QED BY <1>1, <1>3, <2>1, <2>2, LbsDoneLemma DEF LbsRes
<1>4. ASSUME NEW s \in {"PROTOCOL_OLD", "LBS_ERROR"}, LbsRefused(s)
      PROVE  Good(login') /\ login'.told # "none" /\ pings' \in 0 .. Histories
  <2> DEFINE n == Notify(login, s)
  <2>1. s \in Status \ {"LINK_INIT", "LOGIN_SUCCESS"} /\ s # "EXCHANGE_PASSWORD"
    BY DEF Status, Final, Others
  <2>2. Bounded(n) /\ n.told # "none" /\ n.stat # "LOGIN_SUCCESS"
        /\ n.stat # "EXCHANGE_PASSWORD"
    BY <1>1, <1>2, <2>1, NotifyLemma
  <2>3. login' = LbsDone(n) /\ pings' = pings
    BY <1>4 DEF LbsRefused
  <2> HIDE DEF n
  <2> QED BY <1>1, <2>2, <2>3, CalmIsGood, LbsDoneLemma
<1>5. CASE LbsShutDown
  <2> DEFINE n == Notify(login, "LBS_SHUTDOWN")
  <2>1. "LBS_SHUTDOWN" \in Status \ {"LINK_INIT", "LOGIN_SUCCESS"}
    BY DEF Status, Others
  <2>2. Bounded(n) /\ n.told # "none" /\ n.stat # "LOGIN_SUCCESS"
        /\ n.stat # "EXCHANGE_PASSWORD"
    BY <1>1, <1>2, <2>1, NotifyLemma
  <2>3. login' = [n EXCEPT !.lbs = FALSE] /\ pings' = pings
    BY <1>5 DEF LbsShutDown
  <2> HIDE DEF n
  <2>4. Bounded(login') /\ login'.told = n.told /\ login'.stat = n.stat
    BY <2>2, <2>3 DEF Bounded, LoginType
  <2> QED BY <1>1, <2>2, <2>3, <2>4, CalmIsGood
<1>6. CASE LbsLost
  <2>1. login' = [login EXCEPT !.lbs = FALSE] /\ pings' = pings
    BY <1>6 DEF LbsLost
  <2>2. Bounded(login') /\ login'.told = login.told /\ login'.stat = login.stat
        /\ login'.sock = login.sock /\ login'.pingTimer = login.pingTimer
        /\ login'.fails = login.fails /\ login'.loginTimer = login.loginTimer
    BY <1>1, <2>1 DEF Bounded, LoginType
  <2> QED BY <1>1, <1>2, <2>1, <2>2 DEF Good, Base, Whole, Guarded
<1>7. CASE LbsTimeout
  <2>1. login' = LbsDone(login) /\ pings' \in pings .. Histories
    BY <1>7 DEF LbsTimeout
  <2>2. pings' \in 0 .. Histories
    BY <1>1, <2>1, LoginAssumption
  <2> QED BY <1>1, <1>2, <2>1, <2>2, LbsDoneLemma
<1>8. CASE HistoryAnswers
  <2>1. pings' \in 0 .. Histories
    BY <1>1, <1>8, LoginAssumption DEF HistoryAnswers
  <2>2. login' = login \/ login' \in DoLbs(login, TRUE)
    BY <1>8 DEF HistoryAnswers
  <2> QED BY <1>1, <1>2, <2>1, <2>2, DoLbsLemma
<1>9. CASE HistorySilent
  BY <1>1, <1>2, <1>9, LoginAssumption DEF HistorySilent
<1> QED BY <1>3, <1>4, <1>5, <1>6, <1>7, <1>8, <1>9 DEF Lbs

(* The steps of the connection to the link server.                         *)
LEMMA LinkStep == Inv /\ Link => Inv'
<1> SUFFICES ASSUME Inv, Link PROVE Inv'
  OBVIOUS
<1>1. Good(login) /\ Bounded(login) /\ pings \in 0 .. Histories
  BY DEF Inv, Good, Base
<1>2. login.told # "none"
  BY EventsAfterStart
     DEF Link, Connected, Closed, KeyExchanged, KeyRefused, LoginSuccess, LoginFailed,
         LoginError, Kicked, Pong
<1> SUFFICES Good(login') /\ login'.told # "none" /\ pings' = pings
  BY <1>1 DEF Inv
<1>a. {"none", "connecting", "keying", "entering", "in", "refused"} \subseteq Sock
  BY DEF Sock
<1>3. CASE Connected
  <2> DEFINE l == [login EXCEPT !.sock = "keying", !.loginTimer = TRUE]
  <2>1. Bounded(l) /\ l.told = login.told /\ l.loginTimer = TRUE
    BY <1>1, <1>a DEF Bounded, LoginType
  <2>2. login' = Notify(l, "EXCHANGE_PASSWORD") /\ pings' = pings
    BY <1>3 DEF Connected
  <2>3. "EXCHANGE_PASSWORD" \in Status \ {"LINK_INIT", "LOGIN_SUCCESS"}
        /\ "EXCHANGE_PASSWORD" \in Others
    BY DEF Status, Others
  <2> HIDE DEF l
  <2>4. Bounded(login') /\ login'.told # "none" /\ login'.stat = "EXCHANGE_PASSWORD"
        /\ login'.loginTimer = TRUE
    BY <1>2, <2>1, <2>2, <2>3, NotifyLemma
  <2> QED BY <2>2, <2>4 DEF Good, Base, Whole, Guarded
<1>4. CASE Closed
  <2>1. login' = Notify(login, "LINK_NET_ERROR") /\ pings' = pings
    BY <1>4 DEF Closed
  <2>2. "LINK_NET_ERROR" \in NetErrors
    BY DEF NetErrors
  <2> QED BY <1>1, <1>2, <2>1, <2>2, NetErrorLemma
<1>5. CASE KeyExchanged
  <2>1. login' = [login EXCEPT !.sock = "entering"] /\ pings' = pings
        /\ login.sock = "keying"
    BY <1>5 DEF KeyExchanged
  <2>2. Bounded(login') /\ login'.told = login.told /\ login'.stat = login.stat
        /\ login'.loginTimer = login.loginTimer
    BY <1>1, <1>a, <2>1 DEF Bounded, LoginType
  <2>3. login.stat # "LOGIN_SUCCESS"
    BY <1>1, <1>2, <2>1 DEF Good, Whole
  <2> QED BY <1>1, <1>2, <2>1, <2>2, <2>3 DEF Good, Base, Whole, Guarded
<1>6. CASE KeyRefused
  <2>1. login' = Notify(login, "LINK_KEY_ERROR") /\ pings' = pings
    BY <1>6 DEF KeyRefused
  <2>2. "LINK_KEY_ERROR" \in Status \ {"LINK_INIT", "LOGIN_SUCCESS"}
    BY DEF Status, Final
  <2>3. Bounded(login') /\ login'.told # "none" /\ login'.stat # "LOGIN_SUCCESS"
        /\ login'.stat # "EXCHANGE_PASSWORD"
    BY <1>1, <1>2, <2>1, <2>2, NotifyLemma
  <2> QED BY <2>1, <2>3, CalmIsGood
<1>7. CASE LoginSuccess
  <2> DEFINE l == [login EXCEPT !.sock = "in", !.loginTimer = FALSE, !.pingTimer = TRUE]
             m == [l EXCEPT !.stat = "LOGIN_SUCCESS"]
             n == Report(m, "LOGIN_SUCCESS")
  <2>1. "LOGIN_SUCCESS" \in Status /\ "LOGIN_SUCCESS" \notin NetErrors
        /\ "LOGIN_SUCCESS" \notin Final /\ "RELOGIN_SUCCESS" \in Successes
        /\ "LOGIN_SUCCESS" \in Successes /\ "none" \notin Successes
    BY DEF Status, NetErrors, Final, Others, Successes
  <2>2. login' = [n EXCEPT !.succ = TRUE] /\ pings' = pings
    BY <1>7, <2>1 DEF LoginSuccess, Notify
  <2>3. login \in LoginType
    BY <1>1 DEF Bounded
  <2>4. l \in LoginType /\ l.sock = "in" /\ l.pingTimer = TRUE /\ l.loginTimer = FALSE
        /\ l.fails = login.fails /\ l.told = login.told
    BY <1>a, <2>3 DEF LoginType
  <2> HIDE DEF l
  <2>5. m \in LoginType /\ m.stat = "LOGIN_SUCCESS" /\ m.sock = "in" /\ m.pingTimer = TRUE
        /\ m.fails = login.fails /\ m.told = login.told /\ m.loginTimer = FALSE
    BY <2>1, <2>4 DEF LoginType
  <2> HIDE DEF m
  <2>6. n \in LoginType /\ n.stat = "LOGIN_SUCCESS" /\ n.sock = "in" /\ n.pingTimer = TRUE
        /\ n.fails = 0 /\ n.told \in Successes
    <3>1. CASE m.fails = 0
      <4> DEFINE d == [m EXCEPT !.told = "LOGIN_SUCCESS"]
      <4>1. n = d
        BY <3>1 DEF Report
      <4>2. d \in LoginType /\ d.stat = "LOGIN_SUCCESS" /\ d.sock = "in"
            /\ d.pingTimer = TRUE /\ d.fails = 0 /\ d.told = "LOGIN_SUCCESS"
        BY <2>1, <2>5, <3>1 DEF LoginType
      <4> HIDE DEF d
      <4> QED BY <2>1, <4>1, <4>2
    <3>2. CASE m.fails # 0
      <4> DEFINE d == [m EXCEPT !.told = "RELOGIN_SUCCESS", !.fails = 0]
      <4>1. n = d
        BY <3>2 DEF Report
      <4>2. d \in LoginType /\ d.stat = "LOGIN_SUCCESS" /\ d.sock = "in"
            /\ d.pingTimer = TRUE /\ d.fails = 0 /\ d.told = "RELOGIN_SUCCESS"
        BY <2>5 DEF LoginType
      <4> HIDE DEF d
      <4> QED BY <2>1, <4>1, <4>2
    <3> QED BY <3>1, <3>2
  <2> HIDE DEF n
  <2>7. login' \in LoginType /\ login'.stat = "LOGIN_SUCCESS" /\ login'.sock = "in"
        /\ login'.pingTimer = TRUE /\ login'.fails = 0 /\ login'.told \in Successes
    BY <2>2, <2>6 DEF LoginType
  <2>8. Bounded(login')
    BY <2>7, LoginAssumption DEF Bounded
  <2> QED BY <2>1, <2>2, <2>7, <2>8 DEF Good, Base, Whole, Guarded
<1>8. ASSUME NEW s \in {"PASSWD_ERROR", "BLACK_ACCOUNT"}, LoginError(s)
      PROVE  Good(login') /\ login'.told # "none" /\ pings' = pings
  <2> DEFINE l == [login EXCEPT !.sock = "refused", !.loginTimer = FALSE]
  <2>1. Bounded(l) /\ l.told = login.told
    BY <1>1, <1>a DEF Bounded, LoginType
  <2>2. login' = Notify(l, s) /\ pings' = pings
    BY <1>8 DEF LoginError
  <2>3. s \in Status \ {"LINK_INIT", "LOGIN_SUCCESS"} /\ s # "EXCHANGE_PASSWORD"
    BY DEF Status, Final, Others
  <2> HIDE DEF l
  <2>4. Bounded(login') /\ login'.told # "none" /\ login'.stat # "LOGIN_SUCCESS"
        /\ login'.stat # "EXCHANGE_PASSWORD"
    BY <1>2, <2>1, <2>2, <2>3, NotifyLemma
  <2> QED BY <2>2, <2>4, CalmIsGood
<1>9. CASE LoginFailed
  <2> DEFINE l == [login EXCEPT !.sock = "refused"]
  <2>1. Bounded(l) /\ l.told = login.told
    BY <1>1, <1>a DEF Bounded, LoginType
  <2>2. login' = Notify(l, "UNKNOWN") /\ pings' = pings
    BY <1>9 DEF LoginFailed
  <2>3. "UNKNOWN" \in Status \ {"LINK_INIT", "LOGIN_SUCCESS"}
    BY DEF Status, Others
  <2> HIDE DEF l
  <2>4. Bounded(login') /\ login'.told # "none" /\ login'.stat # "LOGIN_SUCCESS"
        /\ login'.stat # "EXCHANGE_PASSWORD"
    BY <1>2, <2>1, <2>2, <2>3, NotifyLemma
  <2> QED BY <2>2, <2>4, CalmIsGood
<1>10. CASE Kicked
  <2>1. login' = Notify(LoggedOut(login), "KICKOFF") /\ pings' = pings
    BY <1>10 DEF Kicked
  <2>2. Bounded(LoggedOut(login)) /\ LoggedOut(login).told = "LOGOUT"
    BY <1>1, LoggedOutLemma
  <2>3. "KICKOFF" \in Status \ {"LINK_INIT", "LOGIN_SUCCESS"}
    BY DEF Status, Final
  <2>4. Bounded(login') /\ login'.told # "none" /\ login'.stat # "LOGIN_SUCCESS"
        /\ login'.stat # "EXCHANGE_PASSWORD"
    BY <2>1, <2>2, <2>3, NotifyLemma
  <2> QED BY <2>1, <2>4, CalmIsGood
<1>11. CASE Pong
  <2>1. login' = [login EXCEPT !.pingCount = 0] /\ pings' = pings
    BY <1>11 DEF Pong
  <2>2. Bounded(login') /\ login'.told = login.told /\ login'.stat = login.stat
        /\ login'.sock = login.sock /\ login'.pingTimer = login.pingTimer
        /\ login'.fails = login.fails /\ login'.loginTimer = login.loginTimer
    BY <1>1, <2>1, LoginAssumption DEF Bounded, LoginType
  <2> QED BY <1>1, <1>2, <2>1, <2>2 DEF Good, Base, Whole, Guarded
<1> QED BY <1>3, <1>4, <1>5, <1>6, <1>7, <1>8, <1>9, <1>10, <1>11 DEF Link

(* The steps of the timers.                                                *)
LEMMA TimerStep == Inv /\ Timers => Inv'
<1> SUFFICES ASSUME Inv, Timers PROVE Inv'
  OBVIOUS
<1>1. Good(login) /\ Bounded(login) /\ pings \in 0 .. Histories
  BY DEF Inv, Good, Base
<1>2. login.told # "none"
  BY EventsAfterStart DEF Timers, Ping, LoginTimeout, RealRelog
<1> SUFFICES Good(login') /\ login'.told # "none" /\ pings' = pings
  BY <1>1 DEF Inv
<1>3. CASE Ping
  <2>1. login.pingTimer /\ login.fails = 0 /\ login.pingCount \in 0 .. PingMax
        /\ login \in LoginType
    BY <1>1, <1>3 DEF Ping, Bounded, LoginType
  <2> DEFINE l == [login EXCEPT !.pingCount = login.pingCount + 1]
  <2>2. login' = IF login.pingCount >= PingMax THEN ReLogin(l) ELSE l
    BY <1>3 DEF Ping
  <2>3. CASE login.pingCount < PingMax
    <3>1. login.pingCount + 1 \in 0 .. PingMax /\ login' = l
      BY <2>1, <2>2, <2>3, LoginAssumption
    <3>2. Bounded(login') /\ login'.told = login.told /\ login'.stat = login.stat
          /\ login'.sock = login.sock /\ login'.pingTimer = login.pingTimer
          /\ login'.fails = login.fails /\ login'.loginTimer = login.loginTimer
      BY <1>1, <3>1 DEF Bounded, LoginType
    <3> QED BY <1>1, <1>2, <1>3, <3>1, <3>2 DEF Good, Base, Whole, Guarded, Ping
  <2>4. CASE login.pingCount >= PingMax
    \* The count is reset in the same step: what it was does not matter.
    <3> DEFINE z == [login EXCEPT !.pingCount = 0]
    <3>1. Cancel(l) = Cancel(z)
      BY <2>1 DEF Cancel, LoginType
    <3>2. login' = ReLogin(z)
      BY <2>2, <2>4, <3>1 DEF ReLogin
    <3>3. Bounded(z) /\ z.fails = 0 /\ z.told = login.told
      BY <1>1, <2>1, LoginAssumption DEF Bounded, LoginType
    <3> HIDE DEF z
    <3>4. Bounded(login') /\ login'.stat = "LINK_INIT" /\ login'.told = login.told
      BY <3>2, <3>3, ReLoginLemma, LoginAssumption
    <3> QED BY <1>2, <1>3, <3>4, CalmIsGood DEF Ping
  <2> QED BY <2>1, <2>3, <2>4, LoginAssumption
<1>4. CASE LoginTimeout
  <2>1. CASE login.stat = "LOGIN_SUCCESS"
    <3>1. login' = [login EXCEPT !.loginTimer = FALSE] /\ pings' = pings
      BY <1>4, <2>1 DEF LoginTimeout
    <3>2. Bounded(login') /\ login'.told = login.told /\ login'.stat = login.stat
          /\ login'.sock = login.sock /\ login'.pingTimer = login.pingTimer
          /\ login'.fails = login.fails
      BY <1>1, <3>1 DEF Bounded, LoginType
    <3> QED BY <1>1, <1>2, <2>1, <3>1, <3>2 DEF Good, Base, Whole, Guarded
  <2>2. CASE login.stat # "LOGIN_SUCCESS"
    <3> DEFINE c == Cancel(login)
               s == IF login.fails = 0 THEN "LOGIN_TIMEOUT" ELSE "NET_BROKEN"
    <3>1. Bounded(c) /\ c.told = login.told
      BY <1>1, CancelLemma
    <3>2. login' = Notify(c, s) /\ pings' = pings
      BY <1>4, <2>2 DEF LoginTimeout
    <3>3. s \in Status \ {"LINK_INIT", "LOGIN_SUCCESS"} /\ s # "EXCHANGE_PASSWORD"
      BY DEF Status, NetErrors, Others
    <3> HIDE DEF c, s
    <3>4. Bounded(login') /\ login'.told # "none" /\ login'.stat # "LOGIN_SUCCESS"
          /\ login'.stat # "EXCHANGE_PASSWORD"
      BY <1>2, <3>1, <3>2, <3>3, NotifyLemma
    <3> QED BY <3>2, <3>4, CalmIsGood
  <2> QED BY <2>1, <2>2
<1>5. CASE RealRelog
  <2> DEFINE l == [login EXCEPT !.loginTimer = TRUE]
  <2>1. PICK q \in RealLogin(l) : login' = [q EXCEPT !.waitTimer = FALSE]
    BY <1>5 DEF RealRelog
  <2>2. Good(l) /\ l.told # "none"
    <3>1. Bounded(l) /\ l.told = login.told /\ l.stat = login.stat
          /\ l.sock = login.sock /\ l.pingTimer = login.pingTimer
          /\ l.fails = login.fails /\ l.loginTimer = TRUE
      BY <1>1 DEF Bounded, LoginType
    <3> QED BY <1>1, <1>2, <3>1 DEF Good, Base, Whole, Guarded
  <2> HIDE DEF l
  <2>3. Good(q) /\ q.told # "none"
    BY <2>2, RealLoginLemma
  <2>4. Bounded(login') /\ login'.told = q.told /\ login'.stat = q.stat
        /\ login'.sock = q.sock /\ login'.pingTimer = q.pingTimer
        /\ login'.fails = q.fails /\ login'.loginTimer = q.loginTimer
    BY <2>1, <2>3 DEF Good, Base, Bounded, LoginType
  <2> QED BY <1>5, <2>3, <2>4 DEF Good, Base, Whole, Guarded, RealRelog
<1> QED BY <1>3, <1>4, <1>5 DEF Timers

-----------------------------------------------------------------------------
(* The invariant holds of every behaviour, and implies what the runs check.*)
THEOREM InvHolds == Spec => []Inv
<1>1. Init => Inv
  BY InitLemma
<1>2. Inv /\ [Next]_vars => Inv'
  <2>1. Inv /\ UNCHANGED vars => Inv'
    BY DEF vars, Inv
  <2> QED BY <2>1, UserStep, LbsStep, LinkStep, TimerStep DEF Next
<1> QED BY <1>1, <1>2, PTL DEF Spec

(* Every state of the login has the types the module gives.                *)
THEOREM TypeCorrect == Spec => []TypeOK
<1>1. Inv => TypeOK
  BY DEF Inv, Good, Base, Bounded, LoginType, TypeOK
<1> QED BY <1>1, InvHolds, PTL

(* MAX_RETIME bounds the attempts of Login, though ping() does not look at *)
(* it.                                                                     *)
THEOREM RetriesCorrect == Spec => []RetriesBounded
<1>1. Inv => RetriesBounded
  BY DEF Inv, Good, Base, Bounded, RetriesBounded
<1> QED BY <1>1, InvHolds, PTL

(* Who is logged in has a live connection, a heartbeat, and watchers who   *)
(* know.                                                                   *)
THEOREM LoggedInCorrect == Spec => []LoggedInWhole
<1>1. Inv => LoggedInWhole
  BY DEF Inv, Good, Whole, LoggedInWhole, Begun
<1> QED BY <1>1, InvHolds, PTL

(* The key exchange never runs without __loginTimer.                       *)
THEOREM AttemptCorrect == Spec => []AttemptGuarded
<1>1. Inv => AttemptGuarded
  BY DEF Inv, Good, Guarded, AttemptGuarded, Begun
<1> QED BY <1>1, InvHolds, PTL

(* A logout or a kick stops everything but the timer of a retry and pings. *)
THEOREM LogoutCorrect == Spec => LogoutComplete
<1> DEFINE Quiet == /\ login'.stat = "LINK_INIT" /\ login'.sock = "none" /\ ~ login'.lbs
                    /\ ~ (login'.loginTimer \/ login'.pingTimer \/ login'.lbsTimer)
                    /\ login'.fails = 0 /\ login'.told \in {"LOGOUT", "KICKOFF"}
<1>1. Inv /\ DoLogout => Quiet
  <2> SUFFICES ASSUME Inv, DoLogout PROVE Quiet
    OBVIOUS
  <2>1. login' = LoggedOut(login) /\ Bounded(login)
    BY DEF DoLogout, Inv, Good, Base
  <2> QED BY <2>1, LoggedOutLemma
<1>2. Inv /\ Kicked => Quiet
  <2> SUFFICES ASSUME Inv, Kicked PROVE Quiet
    OBVIOUS
  <2> DEFINE q == LoggedOut(login)
  <2>1. Bounded(login) /\ login' = Notify(q, "KICKOFF")
    BY DEF Kicked, Inv, Good, Base
  <2>2. Bounded(q) /\ q.told = "LOGOUT" /\ q.fails = 0 /\ ~ q.pingTimer
    BY <2>1, LoggedOutLemma
  <2>3. "KICKOFF" \in Status \ {"LINK_INIT", "LOGIN_SUCCESS"} /\ "KICKOFF" \in Final
    BY DEF Status, Final
  <2> HIDE DEF q
  <2> QED BY <2>1, <2>2, <2>3, NotifyLemma
<1>3. Inv /\ [Next]_vars => [DoLogout \/ Kicked => Quiet]_vars
  BY <1>1, <1>2
<1> QED BY <1>3, InvHolds, PTL DEF Spec, LogoutComplete

-----------------------------------------------------------------------------
(* What of RetriesStop needs no fairness.  From l to q a handler leaves    *)
(* the count of retries and the timer of the next one as they are, stops   *)
(* the timer, or counts one more.                                          *)
Steady(l, q) == q.fails = l.fails /\ q.waitTimer = l.waitTimer

Tried(l, q) == Steady(l, q) \/ q.fails = l.fails + 1

LEMMA CancelSteady == ASSUME NEW l, Bounded(l) PROVE Steady(l, Cancel(l))
<1> QED BY CancelLemma DEF Steady

LEMMA ReLoginCounts ==
  ASSUME NEW l, Bounded(l)
  PROVE  ReLogin(l).fails = l.fails + 1
<1> DEFINE c == Cancel(l)
<1>1. c \in LoginType /\ c.fails = l.fails
  BY CancelLemma DEF Bounded
<1>2. ReLogin(l) = [c EXCEPT !.ip = FALSE, !.ports = FALSE, !.fails = c.fails + 1,
                             !.waitTimer = TRUE, !.pingTimer = FALSE]
  BY DEF ReLogin
<1> HIDE DEF c
<1> QED BY <1>1, <1>2 DEF LoginType

LEMMA ReportSteady ==
  ASSUME NEW l, NEW s, s # "LOGIN_SUCCESS", Bounded(l)
  PROVE  Steady(l, Report(l, s))
<1> QED BY DEF Report, Steady, Bounded, LoginType

LEMMA NotifyTried ==
  ASSUME NEW l, NEW s \in Status \ {"LOGIN_SUCCESS"}, Bounded(l)
  PROVE  /\ Tried(l, Notify(l, s))
         /\ s \notin NetErrors => Steady(l, Notify(l, s))
<1> DEFINE n == [l EXCEPT !.stat = s]
           m == [n EXCEPT !.told = s]
<1>1. Bounded(n) /\ Steady(l, n) /\ n.fails = l.fails
  BY DEF Bounded, LoginType, Steady
<1>2. s \in NetErrors => Bounded(m) /\ Steady(l, m)
  BY <1>1 DEF Bounded, LoginType, Steady
<1>3. Notify(l, s) = IF s \in NetErrors
                     THEN IF MayRetry(n) THEN ReLogin(n) ELSE Cancel(m)
                     ELSE IF s \in Final THEN Report(Cancel(n), s)
                     ELSE Report(n, s)
  BY DEF Notify
<1> HIDE DEF n, m
<1>4. CASE s \in NetErrors
  BY <1>1, <1>2, <1>3, <1>4, ReLoginCounts, CancelSteady DEF Tried, Steady
<1>5. CASE s \notin NetErrors
  <2>1. Bounded(Cancel(n)) /\ Steady(n, Cancel(n))
    BY <1>1, CancelLemma, CancelSteady
  <2>2. Steady(Cancel(n), Report(Cancel(n), s)) /\ Steady(n, Report(n, s))
    BY <1>1, <2>1, ReportSteady
  <2> QED BY <1>1, <1>3, <1>5, <2>1, <2>2 DEF Tried, Steady
<1> QED BY <1>4, <1>5

LEMMA LbsStartSteady ==
  ASSUME NEW l, Bounded(l)
  PROVE  Steady(l, LbsStart(l))
<1> DEFINE d == [l EXCEPT !.lbs = TRUE, !.lbsTimer = TRUE]
<1>1. Bounded(d) /\ Steady(l, d)
  BY DEF Bounded, LoginType, Steady
<1>2. "LINK_LBS" \in Status \ {"LOGIN_SUCCESS"} /\ "LINK_LBS" \notin NetErrors
  BY DEF Status, NetErrors, Others
<1>3. LbsStart(l) = Notify(d, "LINK_LBS")
  BY DEF LbsStart
<1> HIDE DEF d
<1> QED BY <1>1, <1>2, <1>3, NotifyTried DEF Steady

LEMMA RealLoginTried ==
  ASSUME NEW l, Bounded(l), NEW q \in RealLogin(l)
  PROVE  Tried(l, q)
<1> DEFINE c == [l EXCEPT !.sock = "connecting"]
<1>1. Bounded(c) /\ Steady(l, c)
  BY DEF Bounded, LoginType, Steady, Sock
<1>2. {"LBS_NET_ERROR", "LINK_NET_ERROR"} \subseteq Status \ {"LOGIN_SUCCESS"}
  BY DEF Status, NetErrors
<1>3. q \in {l, LbsStart(l), Notify(l, "LBS_NET_ERROR"), c, Notify(c, "LINK_NET_ERROR")}
  BY DEF RealLogin
<1> HIDE DEF c
<1>4. Steady(l, l)
  BY DEF Steady
<1> QED BY <1>1, <1>2, <1>3, <1>4, LbsStartSteady, NotifyTried DEF Tried, Steady

LEMMA DoLbsTried ==
  ASSUME NEW l, Bounded(l), l.told # "none", NEW ports \in BOOLEAN,
         NEW q \in DoLbs(l, ports)
  PROVE  Tried(l, q)
<1> DEFINE d == [l EXCEPT !.ip = TRUE, !.ports = ports]
           n == Notify(d, "LINK_AUTH")
<1>1. Bounded(d) /\ d.told = l.told /\ Steady(l, d)
  BY DEF Bounded, LoginType, Steady
<1>2. /\ "LINK_AUTH" \in Status \ {"LINK_INIT", "LOGIN_SUCCESS"}
      /\ "LINK_AUTH" \notin NetErrors
  BY DEF Status, NetErrors, Others
<1>3. q \in RealLogin(n)
  BY DEF DoLbs
<1> HIDE DEF d
<1>4. Bounded(n) /\ Steady(d, n)
  BY <1>1, <1>2, NotifyLemma, NotifyTried
<1> HIDE DEF n
<1> QED BY <1>1, <1>3, <1>4, RealLoginTried DEF Tried, Steady

-----------------------------------------------------------------------------
\* The handlers that end an episode of retries, and begin the next at zero.
Reset == DoLogin \/ DoLogout \/ Kicked \/ LoginSuccess

Retried == \/ Reset
           \/ login'.fails = login.fails /\ (login'.waitTimer => login.waitTimer)
           \/ login'.fails = login.fails + 1

LEMMA TriedIsRetried == Tried(login, login') => Retried
BY DEF Tried, Steady, Retried

LEMMA LbsRetried == Inv /\ Lbs => Retried
<1> SUFFICES ASSUME Inv, Lbs PROVE Tried(login, login')
  BY TriedIsRetried
<1>1. Bounded(login) /\ login.told # "none"
  BY EventsAfterStart
     DEF Lbs, LbsRes, LbsRefused, LbsShutDown, LbsLost, LbsTimeout, HistoryAnswers,
         HistorySilent, Inv, Good, Base
<1>2. ASSUME NEW l, Bounded(l) PROVE Steady(l, LbsDone(l))
  BY <1>2 DEF LbsDone, Bounded, LoginType, Steady
<1>3. ASSUME NEW ports \in BOOLEAN, LbsRes(ports) PROVE Tried(login, login')
  <2>1. PICK l \in DoLbs(login, ports) : login' = LbsDone(l)
    BY <1>3 DEF LbsRes
  <2>2. Good(login)
    BY DEF Inv
  <2>3. Bounded(l) /\ Tried(login, l)
    BY <1>1, <2>2, DoLbsLemma, DoLbsTried DEF Good, Base
  <2> QED BY <1>2, <2>1, <2>3 DEF Tried, Steady
<1>4. ASSUME NEW s \in {"PROTOCOL_OLD", "LBS_ERROR"}, LbsRefused(s)
      PROVE  Tried(login, login')
  <2>1. s \in Status \ {"LINK_INIT", "LOGIN_SUCCESS"}
    BY DEF Status, Final, Others
  <2>2. Bounded(Notify(login, s)) /\ Tried(login, Notify(login, s))
    BY <1>1, <2>1, NotifyLemma, NotifyTried
  <2> QED BY <1>2, <1>4, <2>2 DEF LbsRefused, Tried, Steady
<1>5. CASE LbsShutDown
  <2> DEFINE n == Notify(login, "LBS_SHUTDOWN")
  <2>1. "LBS_SHUTDOWN" \in Status \ {"LINK_INIT", "LOGIN_SUCCESS"}
    BY DEF Status, Others
  <2>2. Bounded(n) /\ Tried(login, n)
    BY <1>1, <2>1, NotifyLemma, NotifyTried
  <2>3. login' = [n EXCEPT !.lbs = FALSE]
    BY <1>5 DEF LbsShutDown
  <2> HIDE DEF n
  <2>4. Steady(n, login')
    BY <2>2, <2>3 DEF Bounded, LoginType, Steady
  <2> QED BY <2>2, <2>4 DEF Tried, Steady
<1>6. CASE LbsLost
  BY <1>1, <1>6 DEF LbsLost, Bounded, LoginType, Tried, Steady
<1>7. CASE LbsTimeout
  BY <1>1, <1>2, <1>7 DEF LbsTimeout, Tried
<1>8. CASE HistoryAnswers
  <2>1. login' = login \/ login' \in DoLbs(login, TRUE)
    BY <1>8 DEF HistoryAnswers
  <2> QED BY <1>1, <2>1, DoLbsTried DEF Tried, Steady
<1>9. CASE HistorySilent
  BY <1>9 DEF HistorySilent, Tried, Steady
<1> QED BY <1>3, <1>4, <1>5, <1>6, <1>7, <1>8, <1>9 DEF Lbs

LEMMA LinkRetried == Inv /\ Link => Retried
<1> SUFFICES ASSUME Inv, Link, ~ Reset PROVE Tried(login, login')
  BY TriedIsRetried DEF Retried
<1>1. Bounded(login)
  BY DEF Inv, Good, Base
<1>2. {"keying", "entering", "refused"} \subseteq Sock /\ 0 \in 0 .. PingMax
  BY LoginAssumption DEF Sock
<1>3. {"EXCHANGE_PASSWORD", "LINK_NET_ERROR", "LINK_KEY_ERROR", "UNKNOWN",
       "PASSWD_ERROR", "BLACK_ACCOUNT"} \subseteq Status \ {"LOGIN_SUCCESS"}
  BY DEF Status, NetErrors, Final, Others
<1>4. ASSUME NEW l, Bounded(l), Steady(login, l), NEW s \in Status \ {"LOGIN_SUCCESS"},
             login' = Notify(l, s)
      PROVE  Tried(login, login')
  BY <1>4, NotifyTried DEF Tried, Steady
<1>5. CASE Connected
  <2> DEFINE l == [login EXCEPT !.sock = "keying", !.loginTimer = TRUE]
  <2>1. Bounded(l) /\ Steady(login, l)
    BY <1>1, <1>2 DEF Bounded, LoginType, Steady
  <2>2. login' = Notify(l, "EXCHANGE_PASSWORD")
    BY <1>5 DEF Connected
  <2> HIDE DEF l
  <2> QED BY <1>3, <1>4, <2>1, <2>2
<1>6. CASE Closed \/ KeyRefused
  <2>1. Steady(login, login)
    BY DEF Steady
  <2> QED BY <1>1, <1>3, <1>4, <1>6, <2>1 DEF Closed, KeyRefused
<1>7. CASE KeyExchanged \/ Pong
  <2>1. Steady(login, login')
    BY <1>1, <1>2, <1>7 DEF KeyExchanged, Pong, Bounded, LoginType, Steady
  <2> QED BY <2>1 DEF Tried
<1>8. CASE LoginFailed
  <2> DEFINE l == [login EXCEPT !.sock = "refused"]
  <2>1. Bounded(l) /\ Steady(login, l)
    BY <1>1, <1>2 DEF Bounded, LoginType, Steady
  <2>2. login' = Notify(l, "UNKNOWN")
    BY <1>8 DEF LoginFailed
  <2> HIDE DEF l
  <2> QED BY <1>3, <1>4, <2>1, <2>2
<1>9. ASSUME NEW s \in {"PASSWD_ERROR", "BLACK_ACCOUNT"}, LoginError(s)
      PROVE  Tried(login, login')
  <2> DEFINE l == [login EXCEPT !.sock = "refused", !.loginTimer = FALSE]
  <2>1. Bounded(l) /\ Steady(login, l)
    BY <1>1, <1>2 DEF Bounded, LoginType, Steady
  <2>2. login' = Notify(l, s)
    BY <1>9 DEF LoginError
  <2> HIDE DEF l
  <2> QED BY <1>3, <1>4, <2>1, <2>2
<1> QED BY <1>5, <1>6, <1>7, <1>8, <1>9 DEF Link, Reset

LEMMA TimersRetried == Inv /\ Timers => Retried
<1> SUFFICES ASSUME Inv, Timers PROVE Retried
  OBVIOUS
<1>1. Bounded(login) /\ login.told # "none"
  BY EventsAfterStart DEF Timers, Ping, LoginTimeout, RealRelog, Inv, Good, Base
<1>2. CASE Ping
  <2> DEFINE l == [login EXCEPT !.pingCount = login.pingCount + 1]
             z == [login EXCEPT !.pingCount = 0]
  <2>1. login' = IF login.pingCount >= PingMax THEN ReLogin(l) ELSE l
    BY <1>2 DEF Ping
  <2>2. l.fails = login.fails /\ l.waitTimer = login.waitTimer
    BY <1>1 DEF Bounded, LoginType
  <2>3. Cancel(l) = Cancel(z)
    BY <1>1 DEF Cancel, Bounded, LoginType
  <2>4. ReLogin(l) = ReLogin(z)
    BY <2>3 DEF ReLogin
  <2>5. Bounded(z) /\ z.fails = login.fails
    BY <1>1, LoginAssumption DEF Bounded, LoginType
  <2> HIDE DEF l, z
  <2> QED BY <2>1, <2>2, <2>4, <2>5, ReLoginCounts DEF Retried
<1>3. CASE LoginTimeout
  <2>1. CASE login.stat = "LOGIN_SUCCESS"
    BY <1>1, <1>3, <2>1 DEF LoginTimeout, Bounded, LoginType, Retried
  <2>2. CASE login.stat # "LOGIN_SUCCESS"
    <3>1. PICK s \in {"LOGIN_TIMEOUT", "NET_BROKEN"} : login' = Notify(Cancel(login), s)
      BY <1>3, <2>2 DEF LoginTimeout
    <3>2. s \in Status \ {"LOGIN_SUCCESS"}
      BY DEF Status, NetErrors, Others
    <3>3. Bounded(Cancel(login)) /\ Steady(login, Cancel(login))
      BY <1>1, CancelLemma, CancelSteady
    <3>4. Tried(login, login')
      BY <3>1, <3>2, <3>3, NotifyTried DEF Tried, Steady
    <3> QED BY <3>4, TriedIsRetried
  <2> QED BY <2>1, <2>2
<1>4. CASE RealRelog
  <2> DEFINE r == [login EXCEPT !.loginTimer = TRUE]
  <2>1. PICK l \in RealLogin(r) : login' = [l EXCEPT !.waitTimer = FALSE]
    BY <1>4 DEF RealRelog
  <2>2. Good(r) /\ r.told # "none" /\ Steady(login, r)
    BY <1>1 DEF Inv, Good, Base, Fresh, Whole, Guarded, Bounded, LoginType, Steady
  <2> HIDE DEF r
  <2>3. Good(l) /\ Tried(r, l)
    BY <2>2, RealLoginLemma, RealLoginTried DEF Good, Base
  <2>4. login'.fails = l.fails /\ login'.waitTimer = FALSE
    BY <2>1, <2>3 DEF Good, Base, Bounded, LoginType
  <2> QED BY <2>2, <2>3, <2>4 DEF Tried, Steady, Retried
<1> QED BY <1>2, <1>3, <1>4 DEF Timers

(* For every limit: the timer of a retry starts only where the retry is    *)
(* counted, and the count, which MaxRetime bounds (RetriesCorrect), falls  *)
(* only by a login or logout of the user, a kick or a success.  A client   *)
(* that gets no login through therefore waits MaxRetime times at most.     *)
THEOREM RetriesCounted == Spec => [][Retried]_vars
<1>1. Inv /\ CancelLogin => Retried
  <2> SUFFICES ASSUME Inv, CancelLogin PROVE Tried(login, login')
    BY TriedIsRetried
  <2> QED BY CancelSteady DEF CancelLogin, Inv, Good, Base, Tried
<1>2. Inv /\ User => Retried
  BY <1>1 DEF User, Retried, Reset
<1>3. Inv /\ [Next]_vars => [Retried]_vars
  BY <1>2, LbsRetried, LinkRetried, TimersRetried DEF Next
<1> QED BY <1>3, InvHolds, PTL DEF Spec
=============================================================================
